---- MODULE Spec2Model ----
(***************************************************************************)
(* Model of the aesterisk server's dispatch core: the shared State         *)
(* (server/src/state.rs), the per-peer transport loop                      *)
(* (server/src/server.rs, server/src/web.rs) and the packet dispatch of    *)
(* the daemon and web listeners (server/src/daemon.rs, server/src/web.rs). *)
(*                                                                         *)
(* A DashMap is a function whose DOMAIN is its key set.  An unbounded      *)
(* mpsc channel is a record [q, closed]: q is what is enqueued on it and   *)
(* not yet forwarded to the socket, in order.  Every inbound text frame is *)
(* handed to a freshly spawned task (server.rs:192-234, web.rs:126), so a  *)
(* frame first becomes a member of `tasks` and its handler runs later, in  *)
(* any order.                                                              *)
(***************************************************************************)
EXTENDS Integers, Sequences, FiniteSets, TLC

\* ------------------------------------------------------------------ bounds
MaxConns == 2
MaxListens == 2
MaxEvents == 2
MaxStrays == 2
MaxPending == 2
MaxEntries == 1

\* ------------------------------------------------------------- value sets
DaemonAddrs == {"a1", "a2"}
WebAddrs == {"w1", "w2"}
Uuids == {"d1", "d2"}
UserIds == {"u1"}
Challenges == {"c1", "c2"}
EventType == {"NodeStatus", "ServerStatus"}

NoId == "none"
Keys == {"k1", "k2"}
KeyIds == ({"daemon"} \X Uuids) \cup ({"web"} \X UserIds)
EmptyMap == <<>>

\* ------------------------------------------------------------ map helpers
Put(f, k, v) == [x \in DOMAIN f \cup {k} |-> IF x = k THEN v ELSE f[x]]

Remove(f, k) ==
  IF DOMAIN f \ {k} = {} THEN EmptyMap ELSE [x \in DOMAIN f \ {k} |-> f[x]]

\* All orders in which the elements of a finite set can be visited.
SeqPerms(S) ==
  {s \in [1..Cardinality(S) -> S] : \A i, j \in 1..Cardinality(S) : s[i] = s[j] => i = j}

\* The elements of S in the order in which `order` lists them.
Restrict(order, S) == SelectSeq(order, LAMBDA x : x \in S)

\* ---------------------------------------------------------------- records
NoHandshake == [some |-> FALSE, id |-> NoId, challenge |-> NoId]

Handshake(id, challenge) == [some |-> TRUE, id |-> id, challenge |-> challenge]

NewSocket == [q |-> <<>>, closed |-> FALSE, handshake |-> NoHandshake]

\* ------------------------------------------------------- outbound packets
HandshakeRequest(challenge) == [id |-> "HandshakeRequest", challenge |-> challenge]

AuthResponse == [id |-> "AuthResponse", success |-> TRUE]

SDListenPacket(events) == [id |-> "SDListen", events |-> events]

SWEventPacket(uuid, event) == [id |-> "SWEvent", daemon |-> uuid, event |-> event]

\* EventData: the tag and the payload; payload 0 is NodeStatus{online:false, stats:None}.
EventData(type, n) == [type |-> type, n |-> n]

OfflineEvent == EventData("NodeStatus", 0)

\* mpsc::UnboundedSender::unbounded_send: fails once the channel is closed.
CanSend(sock) == ~sock.closed

Enqueue(sock, msg) == [sock EXCEPT !.q = Append(@, msg)]

CloseChannel(sock) == [sock EXCEPT !.closed = TRUE]

\* ------------------------------------------------- State (server/src/state.rs)
\* A fan-out loop that stops one subscriber short.
RECURSIVE send_to_clients_skip_last(_, _, _)
send_to_clients_skip_last(wcm, clients, packet) ==
  IF Len(clients) <= 1 THEN [web_channel_map |-> wcm, ok |-> TRUE]
  ELSE LET client == Head(clients) IN
    IF client \notin DOMAIN wcm THEN [web_channel_map |-> wcm, ok |-> FALSE]
    ELSE IF ~wcm[client].handshake.some THEN [web_channel_map |-> wcm, ok |-> FALSE]
    ELSE IF ~CanSend(wcm[client]) THEN [web_channel_map |-> wcm, ok |-> FALSE]
    ELSE send_to_clients_skip_last([wcm EXCEPT ![client] = Enqueue(@, packet)],
                                   Tail(clients), packet)

\* The loop body of send_event_from_server over the subscribers in iteration
\* order: the first failing subscriber ends the whole fan-out with an error.
RECURSIVE send_to_clients(_, _, _)
send_to_clients(wcm, clients, packet) ==
  IF clients = <<>> THEN [web_channel_map |-> wcm, ok |-> TRUE]
  ELSE LET client == Head(clients) IN
    IF client \notin DOMAIN wcm THEN [web_channel_map |-> wcm, ok |-> FALSE]
    ELSE IF ~wcm[client].handshake.some THEN [web_channel_map |-> wcm, ok |-> FALSE]
    ELSE IF ~CanSend(wcm[client]) THEN [web_channel_map |-> wcm, ok |-> FALSE]
    ELSE send_to_clients([wcm EXCEPT ![client] = Enqueue(@, packet)], Tail(clients), packet)

\* `order` is the iteration order of the HashSet of subscribers.
send_event_from_server(wcm, dlm, uuid, event, order) ==
  IF uuid \notin DOMAIN dlm THEN [web_channel_map |-> wcm, ok |-> FALSE]
  ELSE IF event.type \notin DOMAIN dlm[uuid] THEN [web_channel_map |-> wcm, ok |-> TRUE]
  ELSE send_to_clients(wcm, Restrict(order, dlm[uuid][event.type]), SWEventPacket(uuid, event))

send_event_from_daemon(dcm, wcm, dlm, addr, event, order) ==
  IF addr \notin DOMAIN dcm THEN [web_channel_map |-> wcm, ok |-> FALSE]
  ELSE IF ~dcm[addr].handshake.some THEN [web_channel_map |-> wcm, ok |-> FALSE]
  ELSE send_event_from_server(wcm, dlm, dcm[addr].handshake.id, event, order)

\* A handshake request whose challenge is drawn a second time for the packet.
send_daemon_handshake_request_redrawn(dcm, addr, uuid, challenge) ==
  IF addr \notin DOMAIN dcm THEN [map |-> dcm, ok |-> FALSE]
  ELSE LET client == [dcm[addr] EXCEPT !.handshake = Handshake(uuid, challenge)] IN
    IF CanSend(client)
    THEN [map |-> Put(dcm, addr, Enqueue(client, HandshakeRequest(
                        CHOOSE c \in Challenges : c # challenge))), ok |-> TRUE]
    ELSE [map |-> Put(dcm, addr, client), ok |-> FALSE]

\* The handshake is stored before the request is enqueued, so it stays stored
\* when the enqueue fails.
send_daemon_handshake_request(dcm, addr, uuid, challenge) ==
  IF addr \notin DOMAIN dcm THEN [map |-> dcm, ok |-> FALSE]
  ELSE LET client == [dcm[addr] EXCEPT !.handshake = Handshake(uuid, challenge)] IN
    IF CanSend(client)
    THEN [map |-> Put(dcm, addr, Enqueue(client, HandshakeRequest(challenge))), ok |-> TRUE]
    ELSE [map |-> Put(dcm, addr, client), ok |-> FALSE]

send_web_handshake_request(wcm, addr, user_id, challenge) ==
  IF addr \notin DOMAIN wcm THEN [map |-> wcm, ok |-> FALSE]
  ELSE LET client == [wcm[addr] EXCEPT !.handshake = Handshake(user_id, challenge)] IN
    IF CanSend(client)
    THEN [map |-> Put(wcm, addr, Enqueue(client, HandshakeRequest(challenge))), ok |-> TRUE]
    ELSE [map |-> Put(wcm, addr, client), ok |-> FALSE]

\* An authenticate_daemon that reports a wrong challenge and leaves the channel open.
authenticate_daemon_no_close(dcm, dlm, dim, addr, challenge) ==
  IF addr \notin DOMAIN dcm THEN [map |-> dcm, ids |-> dim, ok |-> FALSE]
  ELSE LET client == dcm[addr] IN
    IF ~client.handshake.some THEN [map |-> dcm, ids |-> dim, ok |-> FALSE]
    ELSE IF challenge # client.handshake.challenge THEN [map |-> dcm, ids |-> dim, ok |-> FALSE]
    ELSE IF ~CanSend(client) THEN [map |-> dcm, ids |-> dim, ok |-> FALSE]
    ELSE LET uuid == client.handshake.id
             answered == Enqueue(client, AuthResponse)
             listened == IF uuid \in DOMAIN dlm
                         THEN Enqueue(answered, SDListenPacket(DOMAIN dlm[uuid]))
                         ELSE answered
         IN [map |-> Put(dcm, addr, listened), ids |-> Put(dim, uuid, addr), ok |-> TRUE]

\* An authenticate_daemon that answers and registers, and sends no SDListen.
authenticate_daemon_no_listen(dcm, dlm, dim, addr, challenge) ==
  IF addr \notin DOMAIN dcm THEN [map |-> dcm, ids |-> dim, ok |-> FALSE]
  ELSE LET client == dcm[addr] IN
    IF ~client.handshake.some THEN [map |-> dcm, ids |-> dim, ok |-> FALSE]
    ELSE IF challenge # client.handshake.challenge
      THEN [map |-> Put(dcm, addr, CloseChannel(client)), ids |-> dim, ok |-> FALSE]
    ELSE IF ~CanSend(client) THEN [map |-> dcm, ids |-> dim, ok |-> FALSE]
    ELSE LET uuid == client.handshake.id
             answered == Enqueue(client, AuthResponse)
         IN [map |-> Put(dcm, addr, answered), ids |-> Put(dim, uuid, addr), ok |-> TRUE]

\* Result of authenticate_daemon: the channel map, the id map and Ok/Err.
authenticate_daemon(dcm, dlm, dim, addr, challenge) ==
  IF addr \notin DOMAIN dcm THEN [map |-> dcm, ids |-> dim, ok |-> FALSE]
  ELSE LET client == dcm[addr] IN
    IF ~client.handshake.some THEN [map |-> dcm, ids |-> dim, ok |-> FALSE]
    ELSE IF challenge # client.handshake.challenge
      THEN [map |-> Put(dcm, addr, CloseChannel(client)), ids |-> dim, ok |-> FALSE]
    ELSE IF ~CanSend(client) THEN [map |-> dcm, ids |-> dim, ok |-> FALSE]
    ELSE LET uuid == client.handshake.id
             answered == Enqueue(client, AuthResponse)
             listened == IF uuid \in DOMAIN dlm
                         THEN Enqueue(answered, SDListenPacket(DOMAIN dlm[uuid]))
                         ELSE answered
         IN [map |-> Put(dcm, addr, listened), ids |-> Put(dim, uuid, addr), ok |-> TRUE]

authenticate_web(wcm, addr, challenge) ==
  IF addr \notin DOMAIN wcm THEN [map |-> wcm, ok |-> FALSE]
  ELSE LET client == wcm[addr] IN
    IF ~client.handshake.some THEN [map |-> wcm, ok |-> FALSE]
    ELSE IF challenge # client.handshake.challenge
      THEN [map |-> Put(wcm, addr, CloseChannel(client)), ok |-> FALSE]
    ELSE IF ~CanSend(client) THEN [map |-> wcm, ok |-> FALSE]
    ELSE [map |-> Put(wcm, addr, Enqueue(client, AuthResponse)), ok |-> TRUE]

add_daemon(dcm, addr) == Put(dcm, addr, NewSocket)

add_web(wcm, addr) == Put(wcm, addr, NewSocket)

update_listens_for_daemon(dcm, dlm, addr, uuid) ==
  IF addr \notin DOMAIN dcm THEN [map |-> dcm, ok |-> FALSE]
  ELSE IF uuid \notin DOMAIN dlm THEN [map |-> dcm, ok |-> FALSE]
  ELSE IF ~dcm[addr].handshake.some THEN [map |-> dcm, ok |-> FALSE]
  ELSE IF ~CanSend(dcm[addr]) THEN [map |-> dcm, ok |-> FALSE]
  ELSE [map |-> Put(dcm, addr, Enqueue(dcm[addr], SDListenPacket(DOMAIN dlm[uuid]))), ok |-> TRUE]

\* `for daemon in update_daemons { if let Some(addr) = daemon_id_map.get(..) { ..? } }`
RECURSIVE update_daemons_loop(_, _, _, _)
update_daemons_loop(dcm, dlm, dim, daemons) ==
  IF daemons = <<>> THEN [map |-> dcm, ok |-> TRUE]
  ELSE LET daemon == Head(daemons) IN
    IF daemon \notin DOMAIN dim THEN update_daemons_loop(dcm, dlm, dim, Tail(daemons))
    ELSE LET r == update_listens_for_daemon(dcm, dlm, dim[daemon], daemon) IN
      IF r.ok THEN update_daemons_loop(r.map, dlm, dim, Tail(daemons))
      ELSE [map |-> r.map, ok |-> FALSE]

\* A remove_daemon that leaves the daemon's entry in the id map.
remove_daemon_keeps_id(dcm, wcm, dlm, dim, addr, order) ==
  IF addr \notin DOMAIN dcm
    THEN [daemon_channel_map |-> dcm, daemon_id_map |-> dim, web_channel_map |-> wcm, ok |-> FALSE]
  ELSE IF ~dcm[addr].handshake.some
    THEN [daemon_channel_map |-> dcm, daemon_id_map |-> dim, web_channel_map |-> wcm, ok |-> FALSE]
  ELSE LET r == send_event_from_server(wcm, dlm, dcm[addr].handshake.id, OfflineEvent, order)
       IN [daemon_channel_map |-> Remove(dcm, addr), daemon_id_map |-> dim,
           web_channel_map |-> r.web_channel_map, ok |-> r.ok]

\* remove_daemon: an address without a record or without a handshake is an
\* error before anything is removed.
remove_daemon(dcm, wcm, dlm, dim, addr, order) ==
  IF addr \notin DOMAIN dcm
    THEN [daemon_channel_map |-> dcm, daemon_id_map |-> dim, web_channel_map |-> wcm, ok |-> FALSE]
  ELSE IF ~dcm[addr].handshake.some
    THEN [daemon_channel_map |-> dcm, daemon_id_map |-> dim, web_channel_map |-> wcm, ok |-> FALSE]
  ELSE LET uuid == dcm[addr].handshake.id
           r == send_event_from_server(wcm, dlm, uuid, OfflineEvent, order)
       IN [daemon_channel_map |-> Remove(dcm, addr), daemon_id_map |-> Remove(dim, uuid),
           web_channel_map |-> r.web_channel_map, ok |-> r.ok]

\* send_listen, first block: one ListenEvent {event, daemons} of the request.
listen_insert_daemons(dlm, addr, event, daemons) ==
  IF daemons = {} THEN dlm
  ELSE [d \in DOMAIN dlm \cup daemons |->
         IF d \notin daemons THEN dlm[d]
         ELSE IF d \notin DOMAIN dlm THEN Put(EmptyMap, event, {addr})
         ELSE IF event \in DOMAIN dlm[d] THEN Put(dlm[d], event, dlm[d][event] \cup {addr})
         ELSE Put(dlm[d], event, {addr})]

\* A mirror that starts the peer's map anew with every entry of a request.
listen_insert_web_overwrites(wlm, addr, event, daemons) ==
  Put(wlm, addr, Put(EmptyMap, event, daemons))

listen_insert_web(wlm, addr, event, daemons) ==
  IF addr \notin DOMAIN wlm THEN Put(wlm, addr, Put(EmptyMap, event, daemons))
  ELSE IF event \in DOMAIN wlm[addr]
    THEN Put(wlm, addr, Put(wlm[addr], event, wlm[addr][event] \cup daemons))
  ELSE Put(wlm, addr, Put(wlm[addr], event, daemons))

\* send_listen, first block: the whole request, entry by entry.
RECURSIVE listen_insert(_, _, _, _, _)
listen_insert(acc, dim, addr, events, i) ==
  IF i > Len(events) THEN acc
  ELSE LET event == events[i].event
           daemons == events[i].daemons
       IN listen_insert(
            [daemon_listen_map |-> listen_insert_daemons(acc.daemon_listen_map, addr, event, daemons),
             web_listen_map |-> listen_insert_web(acc.web_listen_map, addr, event, daemons),
             update_daemons |-> acc.update_daemons \cup daemons,
             offline_daemons |-> acc.offline_daemons \cup
                {d \in daemons : event = "NodeStatus" /\ d \notin DOMAIN dim}],
            dim, addr, events, i + 1)

\* `for daemon in offline_daemons { self.send_event_from_server(..).await?; }`
RECURSIVE offline_daemons_loop(_, _, _, _)
offline_daemons_loop(wcm, dlm, daemons, order) ==
  IF daemons = <<>> THEN [web_channel_map |-> wcm, ok |-> TRUE]
  ELSE LET r == send_event_from_server(wcm, dlm, Head(daemons), OfflineEvent, order[Head(daemons)]) IN
    IF r.ok THEN offline_daemons_loop(r.web_channel_map, dlm, Tail(daemons), order)
    ELSE r

\* order: per daemon, the iteration order of its subscriber set; offline_order and
\* update_order: the iteration orders of the two HashSets of daemons.
send_listen(dcm, wcm, dlm, wlm, dim, addr, events, order, offline_order, update_order) ==
  LET ins == listen_insert([daemon_listen_map |-> dlm, web_listen_map |-> wlm,
                            update_daemons |-> {}, offline_daemons |-> {}], dim, addr, events, 1)
      off == offline_daemons_loop(wcm, ins.daemon_listen_map,
                                  Restrict(offline_order, ins.offline_daemons), order)
      upd == IF off.ok
             THEN update_daemons_loop(dcm, ins.daemon_listen_map, dim,
                                      Restrict(update_order, ins.update_daemons))
             ELSE [map |-> dcm, ok |-> FALSE]
  IN [daemon_channel_map |-> upd.map, web_channel_map |-> off.web_channel_map,
      daemon_listen_map |-> ins.daemon_listen_map, web_listen_map |-> ins.web_listen_map,
      ok |-> upd.ok]

\* The (event, daemon) pairs of one web peer's listen map.
ListenPairs(listen_map) ==
  {p \in EventType \X Uuids : p[1] \in DOMAIN listen_map /\ p[2] \in listen_map[p[1]]}

\* The orders in which the nested loops of remove_web can visit the pairs: event
\* by event, the daemons of one event one after the other.
VisitOrders(listen_map) ==
  {s \in SeqPerms(ListenPairs(listen_map)) :
     \A i, j, k \in 1..Len(s) : (i < j /\ j < k /\ s[i][1] = s[k][1]) => s[j][1] = s[i][1]}

\* remove_web, the nested loops: a missing daemon or event key ends them with an
\* error, leaving the remaining pairs untouched.
RECURSIVE remove_web_loop(_, _, _, _)
remove_web_loop(dlm, addr, pairs, update_daemons) ==
  IF pairs = <<>> THEN [daemon_listen_map |-> dlm, update_daemons |-> update_daemons, ok |-> TRUE]
  ELSE LET event == Head(pairs)[1]
           daemon == Head(pairs)[2]
           upd == update_daemons \cup {daemon}
       IN IF daemon \notin DOMAIN dlm
            THEN [daemon_listen_map |-> dlm, update_daemons |-> upd, ok |-> FALSE]
          ELSE IF event \notin DOMAIN dlm[daemon]
            THEN [daemon_listen_map |-> dlm, update_daemons |-> upd, ok |-> FALSE]
          ELSE LET event_map == dlm[daemon][event] \ {addr}
                   listen_map == IF event_map = {} THEN Remove(dlm[daemon], event)
                                 ELSE Put(dlm[daemon], event, event_map)
               IN remove_web_loop(Put(dlm, daemon, listen_map), addr, Tail(pairs), upd)

remove_web(dcm, wcm, dlm, wlm, dim, addr, pairs, update_order) ==
  LET removed == Remove(wcm, addr)
      loop == IF addr \in DOMAIN wlm THEN remove_web_loop(dlm, addr, pairs, {})
              ELSE [daemon_listen_map |-> dlm, update_daemons |-> {}, ok |-> TRUE]
      upd == IF loop.ok
             THEN update_daemons_loop(dcm, loop.daemon_listen_map, dim,
                                      Restrict(update_order, loop.update_daemons))
             ELSE [map |-> dcm, ok |-> FALSE]
  IN [daemon_channel_map |-> upd.map, web_channel_map |-> removed,
      daemon_listen_map |-> loop.daemon_listen_map, ok |-> upd.ok]


\* The subscriber set a fan-out for (uuid, type) iterates over.
Subscribers(dlm, uuid, type) ==
  IF uuid \in DOMAIN dlm /\ type \in DOMAIN dlm[uuid] THEN dlm[uuid][type] ELSE {}

\* The writer half of handle_client: `rx.map(Ok).forward(outgoing)` moves what
\* is enqueued on a channel to the socket.
Drain(map) == [a \in DOMAIN map |-> [map[a] EXCEPT !.q = <<>>]]

VARIABLES
  daemon_channel_map,   \* SocketAddr -> DaemonSocket
  web_channel_map,      \* SocketAddr -> WebSocket
  daemon_listen_map,    \* Uuid -> (EventType -> set of web SocketAddr)
  web_listen_map,       \* web SocketAddr -> (EventType -> set of Uuid)
  daemon_id_map,        \* Uuid -> SocketAddr
  daemon_loops,         \* daemon addresses whose transport loop is running
  web_loops,            \* web addresses whose transport loop is running
  tasks,                \* spawned handle_packet tasks that have not run yet
  scenario,             \* what the peers of this run may do, per kind of step
  used,                 \* what they have done so far
  daemon_passed,        \* history: the uuid whose challenge the latest connection
                        \* from the address answered
  web_passed,           \* history: web connections that answered their challenge
  running               \* handlers followed guard by guard: where each of them is

\* The daemon program (src/daemon): its container engine and its services.
VARIABLES
  docker,               \* the container engine and the data directories of the host
  server,               \* the Server a create_server call is given
  result,               \* what the call returned
  token,                \* services::CANCELLATION_TOKEN is cancelled
  child_tokens,         \* server_status::CANCELLATION_TOKEN and the tokens it has held
  syncs,                \* the handlers of SDSync packets, running and ended
  stats,                \* the server_status::start tasks, running and ended
  sender,               \* SENDER and the channels that were closed
  client,               \* services::client::run and the connections it spawned
  node_status,          \* services::node_status::run
  LISTENS,              \* LISTENS: the events the server asked for last
  listen_tasks,         \* the handlers of SDListen packets, spawned and ended
  outbound              \* the NodeStatus events enqueued on the channels of SENDER

listen_vars == <<LISTENS, listen_tasks, outbound>>

\* The public keys of the server program (src/server): the tables it reads them
\* from and the caches it keeps them in.
VARIABLES
  key_store,            \* aesterisk.nodes and aesterisk.users: identity -> public key
  daemon_key_cache,     \* State::daemon_key_cache: Uuid -> public key
  web_key_cache,        \* WEB_KEY_CACHE: user id -> public key
  queries               \* the calls of query_user_public_key, running and returned

key_vars == <<key_store, daemon_key_cache, web_key_cache, queries>>

service_vars == <<token, child_tokens, syncs, stats, sender, client, node_status,
                  listen_vars>>

node_vars == <<docker, server, result, token, child_tokens, syncs, stats, sender,
               client, node_status, listen_vars>>

vars == <<daemon_channel_map, web_channel_map, daemon_listen_map, web_listen_map,
          daemon_id_map, daemon_loops, web_loops, tasks, scenario, used,
          daemon_passed, web_passed, running, node_vars, key_vars>>

\* An engine with no network, container or image of the daemon's.
EmptyEngine == [networks |-> {}, containers |-> {}, images |-> {}, data_dirs |-> {}]

NoServer == [id |-> 0]

NotCalled == [called |-> FALSE]

\* The daemon program before it has done anything.
\* No child token yet; `made` counts the child tokens created, `cancelled` holds
\* those on which cancel() was called.
NoChildTokens == [current |-> 0, made |-> 0, cancelled |-> {}]

\* No channel yet; a channel is known by the number of the attempt that made it.
NoSender == [current |-> 0, closed |-> {}]

\* The services before services::start.
ServicesIdle ==
  /\ token = FALSE
  /\ child_tokens = NoChildTokens
  /\ syncs = {}
  /\ stats = {}
  /\ sender = NoSender
  /\ client = [pc |-> "idle", attempts |-> 0, connections |-> {}]
  /\ node_status = "idle"
  /\ LISTENS = {}
  /\ listen_tasks = {}
  /\ outbound = <<>>

NodeIdle ==
  /\ docker = EmptyEngine
  /\ server = NoServer
  /\ result = NotCalled
  /\ ServicesIdle

\* No key cached and no lookup begun; every identity has its first key.
KeysIdle ==
  /\ key_store = [i \in KeyIds |-> "k1"]
  /\ daemon_key_cache = EmptyMap
  /\ web_key_cache = EmptyMap
  /\ queries = {}

index_vars == <<daemon_listen_map, web_listen_map, daemon_id_map>>

\* The runs explored: many web peers and one daemon, many events of one daemon
\* handled concurrently, many daemon connections, and peers that stray from the
\* handshake.  `pending` is the number of spawned tasks that may wait at once.
Scenarios ==
  { [daemons |-> 1, webs |-> MaxConns, listens |-> MaxListens, events |-> 1, strays |-> 0,
     pending |-> 1],
    [daemons |-> 1, webs |-> 1, listens |-> 1, events |-> MaxEvents, strays |-> 0,
     pending |-> MaxPending],
    [daemons |-> MaxConns, webs |-> 1, listens |-> 1, events |-> 1, strays |-> 0,
     pending |-> 1],
    [daemons |-> 1, webs |-> 1, listens |-> 1, events |-> 1, strays |-> MaxStrays,
     pending |-> 1] }

Init ==
  /\ daemon_channel_map = EmptyMap
  /\ web_channel_map = EmptyMap
  /\ daemon_listen_map = EmptyMap
  /\ web_listen_map = EmptyMap
  /\ daemon_id_map = EmptyMap
  /\ daemon_loops = {}
  /\ web_loops = {}
  /\ tasks = {}
  /\ scenario \in Scenarios
  /\ used = [daemons |-> 0, webs |-> 0, listens |-> 0, events |-> 0, strays |-> 0]
  /\ daemon_passed = [a \in DaemonAddrs |-> NoId]
  /\ web_passed = {}
  /\ running = {}
  /\ KeysIdle
  /\ NodeIdle

\* ------------------------------------------------------------ inbound frames
DSAuthPacket(uuid) == [id |-> "DSAuth", daemon_uuid |-> uuid]

DSHandshakeResponsePacket(challenge) == [id |-> "DSHandshakeResponse", challenge |-> challenge]

DSEventPacket(data) == [id |-> "DSEvent", data |-> data]

WSAuthPacket(user_id) == [id |-> "WSAuth", user_id |-> user_id]

WSHandshakeResponsePacket(challenge) == [id |-> "WSHandshakeResponse", challenge |-> challenge]

WSListenPacket(events) == [id |-> "WSListen", events |-> events]

ListenEvent == [event : EventType, daemons : SUBSET Uuids \ {{}}]

ListenRequests == UNION {[1..n -> ListenEvent] : n \in 1..MaxEntries}

\* What a frame costs the peers' budget.
Kind(packet) ==
  IF packet.id = "DSEvent" THEN "events"
  ELSE IF packet.id = "WSListen" THEN "listens"
  ELSE "strays"

\* A text frame that is not a JWE under the server's key, and one that decrypts
\* to a token of another issuer (the server's own, say).
UndecryptableFrame == [id |-> "Undecryptable"]
WrongIssuerFrame == [id |-> "WrongIssuer", iss |-> "aesterisk/server"]

\* A well-formed packet of the other direction: one the server itself sends to
\* its daemons.
SDPacket == [id |-> "SDAuthResponse"]

\* The payload of a DSEvent is its number among the events of the run.
DaemonPackets ==
  {UndecryptableFrame, WrongIssuerFrame, SDPacket} \cup
  {DSAuthPacket(d) : d \in Uuids} \cup
  {DSHandshakeResponsePacket(c) : c \in Challenges} \cup
  {DSEventPacket(EventData(e, used.events + 1)) : e \in EventType}

WebPackets ==
  {UndecryptableFrame, WrongIssuerFrame, SDPacket} \cup
  {WSAuthPacket(u) : u \in UserIds} \cup
  {WSHandshakeResponsePacket(c) : c \in Challenges} \cup
  {WSListenPacket(r) : r \in ListenRequests}

Task(side, addr, packet) == [side |-> side, addr |-> addr, packet |-> packet]

\* rand_bytes: a challenge is 256 fresh random bytes.  Challenges of different
\* connections are never compared, and on one connection a new challenge differs
\* from the one it replaces.
rand_challenge(handshake) == CHOOSE c \in Challenges : c # handshake.challenge

\* The address a first connection comes from: addresses are interchangeable.
FirstOf(Addrs) == CHOOSE a \in Addrs : TRUE

Spend(kind) == [used EXCEPT ![kind] = @ + 1]

\* ------------------------------------------- transport loop (server.rs, web.rs)
\* accept_connection: the upgrade completed, on_accept registers the record and
\* handle_client starts.
DaemonAccept(addr) ==
  /\ addr \notin daemon_loops
  /\ used.daemons < scenario.daemons
  /\ used.daemons = 0 => addr = FirstOf(DaemonAddrs)
  /\ daemon_channel_map' = add_daemon(Drain(daemon_channel_map), addr)
  /\ web_channel_map' = Drain(web_channel_map)
  /\ daemon_loops' = daemon_loops \cup {addr}
  /\ used' = Spend("daemons")
  /\ daemon_passed' = [daemon_passed EXCEPT ![addr] = NoId]
  /\ UNCHANGED <<index_vars, web_loops, tasks, scenario, node_vars, key_vars, running, web_passed>>

WebAccept(addr) ==
  /\ addr \notin web_loops
  /\ used.webs < scenario.webs
  /\ used.webs = 0 => addr = FirstOf(WebAddrs)
  /\ web_channel_map' = add_web(Drain(web_channel_map), addr)
  /\ daemon_channel_map' = Drain(daemon_channel_map)
  /\ web_loops' = web_loops \cup {addr}
  /\ used' = Spend("webs")
  /\ web_passed' = web_passed \ {addr}
  /\ UNCHANGED <<index_vars, daemon_loops, tasks, scenario, node_vars, key_vars, running, daemon_passed>>

\* handle_client, the reader: a text frame is read and its handler is spawned.
Spawn(side, addr, packet) ==
  /\ used[Kind(packet)] < scenario[Kind(packet)]
  /\ Cardinality(tasks) < scenario.pending
  /\ Task(side, addr, packet) \notin tasks
  /\ used' = Spend(Kind(packet))
  /\ tasks' = tasks \cup {Task(side, addr, packet)}
  /\ daemon_channel_map' = Drain(daemon_channel_map)
  /\ web_channel_map' = Drain(web_channel_map)
  /\ UNCHANGED <<index_vars, daemon_loops, web_loops, scenario, node_vars, key_vars, running, daemon_passed, web_passed>>

DaemonDeliver(addr) ==
  /\ addr \in daemon_loops
  /\ \E packet \in DaemonPackets : Spawn("daemon", addr, packet)

WebDeliver(addr) ==
  /\ addr \in web_loops
  /\ \E packet \in WebPackets : Spawn("web", addr, packet)

\* A hook that runs while the loop goes on, on a record that stays registered.
DaemonDisconnect_loop_goes_on(addr) ==
  /\ addr \in daemon_loops
  /\ \E order \in SeqPerms(Subscribers(daemon_listen_map,
                                       daemon_channel_map[addr].handshake.id, "NodeStatus")) :
       LET r == remove_daemon(Drain(daemon_channel_map), Drain(web_channel_map),
                              daemon_listen_map, daemon_id_map, addr, order)
       IN /\ daemon_channel_map' =
               IF addr \in DOMAIN r.daemon_channel_map
               THEN [r.daemon_channel_map EXCEPT ![addr] = CloseChannel(@)]
               ELSE add_daemon(r.daemon_channel_map, addr)
          /\ daemon_id_map' = r.daemon_id_map
          /\ web_channel_map' = r.web_channel_map
  /\ daemon_loops' = daemon_loops
  /\ UNCHANGED <<daemon_listen_map, web_listen_map, web_loops, tasks, scenario, node_vars, key_vars, running, used,
                 daemon_passed, web_passed>>

\* handle_client, after select: the loop has ended, the receiver is dropped and
\* on_disconnect runs.
DaemonDisconnect(addr) ==
  /\ addr \in daemon_loops
  /\ \E order \in SeqPerms(Subscribers(daemon_listen_map,
                                       daemon_channel_map[addr].handshake.id, "NodeStatus")) :
       LET r == remove_daemon(Drain(daemon_channel_map), Drain(web_channel_map),
                              daemon_listen_map, daemon_id_map, addr, order)
       IN /\ daemon_channel_map' =
               IF addr \in DOMAIN r.daemon_channel_map
               THEN [r.daemon_channel_map EXCEPT ![addr] = CloseChannel(@)]
               ELSE r.daemon_channel_map
          /\ daemon_id_map' = r.daemon_id_map
          /\ web_channel_map' = r.web_channel_map
  /\ daemon_loops' = daemon_loops \ {addr}
  /\ UNCHANGED <<daemon_listen_map, web_listen_map, web_loops, tasks, scenario, node_vars, key_vars, running, used,
                 daemon_passed, web_passed>>

WebDisconnect(addr) ==
  /\ addr \in web_loops
  /\ \E pairs \in (IF addr \in DOMAIN web_listen_map
                   THEN VisitOrders(web_listen_map[addr]) ELSE {<<>>}) :
     \E update_order \in SeqPerms({pairs[i][2] : i \in 1..Len(pairs)}) :
       LET r == remove_web(Drain(daemon_channel_map), Drain(web_channel_map),
                           daemon_listen_map, web_listen_map, daemon_id_map,
                           addr, pairs, update_order)
       IN /\ daemon_channel_map' = r.daemon_channel_map
          /\ web_channel_map' = r.web_channel_map
          /\ daemon_listen_map' = r.daemon_listen_map
  /\ web_loops' = web_loops \ {addr}
  /\ web_passed' = web_passed \ {addr}
  /\ UNCHANGED <<web_listen_map, daemon_id_map, daemon_loops, tasks, scenario, node_vars, key_vars, running, used, daemon_passed>>

\* ------------------------------------------ DaemonServer::on_packet (daemon.rs)
\* The effect of each handler on everything but the task set and the budget.
\* handle_auth: the key of every uuid of the model is in the store.
handle_auth(addr, daemon_uuid) ==
  /\ daemon_channel_map' =
       send_daemon_handshake_request(
         Drain(daemon_channel_map), addr, daemon_uuid,
         IF addr \in DOMAIN daemon_channel_map
         THEN rand_challenge(daemon_channel_map[addr].handshake)
         ELSE rand_challenge(NoHandshake)).map
  /\ web_channel_map' = Drain(web_channel_map)
  /\ UNCHANGED <<index_vars, daemon_loops, web_loops, scenario, node_vars, key_vars, running, daemon_passed, web_passed>>

handle_handshake_response(addr, challenge) ==
  /\ LET r == authenticate_daemon(Drain(daemon_channel_map), daemon_listen_map,
                                  daemon_id_map, addr, challenge)
     IN /\ daemon_channel_map' = r.map
        /\ daemon_id_map' = r.ids
        /\ daemon_passed' = IF r.ok
                            THEN [daemon_passed EXCEPT ![addr] = daemon_channel_map[addr].handshake.id]
                            ELSE daemon_passed
  /\ web_channel_map' = Drain(web_channel_map)
  /\ UNCHANGED <<daemon_listen_map, web_listen_map, daemon_loops, web_loops, scenario, node_vars, key_vars, running, web_passed>>

handle_event(addr, data) ==
  /\ \E order \in SeqPerms(IF addr \in DOMAIN daemon_channel_map
                           THEN Subscribers(daemon_listen_map,
                                            daemon_channel_map[addr].handshake.id, data.type)
                           ELSE {}) :
       web_channel_map' =
         send_event_from_daemon(Drain(daemon_channel_map), Drain(web_channel_map),
                                daemon_listen_map, addr, data, order).web_channel_map
  /\ daemon_channel_map' = Drain(daemon_channel_map)
  /\ UNCHANGED <<index_vars, daemon_loops, web_loops, scenario, node_vars, key_vars, running, daemon_passed, web_passed>>

\* --------------------------------------------------- handle_packet (web.rs)
web_handle_auth(addr, user_id) ==
  /\ web_channel_map' =
       send_web_handshake_request(
         Drain(web_channel_map), addr, user_id,
         IF addr \in DOMAIN web_channel_map
         THEN rand_challenge(web_channel_map[addr].handshake)
         ELSE rand_challenge(NoHandshake)).map
  /\ daemon_channel_map' = Drain(daemon_channel_map)
  /\ UNCHANGED <<index_vars, daemon_loops, web_loops, scenario, node_vars, key_vars, running, daemon_passed, web_passed>>

web_handle_handshake_response(addr, challenge) ==
  /\ LET r == authenticate_web(Drain(web_channel_map), addr, challenge)
     IN /\ web_channel_map' = r.map
        /\ web_passed' = IF r.ok THEN web_passed \cup {addr} ELSE web_passed
  /\ daemon_channel_map' = Drain(daemon_channel_map)
  /\ UNCHANGED <<index_vars, daemon_loops, web_loops, scenario, node_vars, key_vars, running, daemon_passed>>

\* The daemons of a request that are offline when it is handled.
OfflineDaemons(events) ==
  UNION {IF events[i].event = "NodeStatus" THEN events[i].daemons \ DOMAIN daemon_id_map ELSE {}
         : i \in 1..Len(events)}

handle_listen(addr, events) ==
  /\ \E order \in [OfflineDaemons(events) -> SeqPerms(WebAddrs)],
        offline_order \in SeqPerms(OfflineDaemons(events)),
        update_order \in SeqPerms(UNION {events[i].daemons : i \in 1..Len(events)}) :
       LET r == send_listen(Drain(daemon_channel_map), Drain(web_channel_map),
                            daemon_listen_map, web_listen_map, daemon_id_map, addr, events,
                            order, offline_order, update_order)
       IN /\ daemon_channel_map' = r.daemon_channel_map
          /\ web_channel_map' = r.web_channel_map
          /\ daemon_listen_map' = r.daemon_listen_map
          /\ web_listen_map' = r.web_listen_map
  /\ UNCHANGED <<daemon_id_map, daemon_loops, web_loops, scenario, node_vars, key_vars, running, daemon_passed, web_passed>>

\* The task of a frame ends without having touched the state.
TaskEndsEarly ==
  /\ daemon_channel_map' = Drain(daemon_channel_map)
  /\ web_channel_map' = Drain(web_channel_map)
  /\ UNCHANGED <<index_vars, daemon_loops, web_loops, scenario, node_vars, key_vars, running, daemon_passed, web_passed>>

on_packet(packet, addr) ==
  \/ packet.id = "DSAuth" /\ handle_auth(addr, packet.daemon_uuid)
  \/ packet.id = "DSHandshakeResponse" /\ handle_handshake_response(addr, packet.challenge)
  \/ packet.id = "DSEvent" /\ handle_event(addr, packet.data)
  \/ packet.id = SDPacket.id /\ TaskEndsEarly

handle_packet(packet, addr) ==
  \/ packet.id = "WSAuth" /\ web_handle_auth(addr, packet.user_id)
  \/ packet.id = "WSHandshakeResponse" /\ web_handle_handshake_response(addr, packet.challenge)
  \/ packet.id = "WSListen" /\ handle_listen(addr, packet.events)
  \/ packet.id = SDPacket.id /\ TaskEndsEarly

\* DaemonServer::on_decrypt_error: State::disconnect_daemon closes the channel
\* of the record, if there is one.
disconnect_daemon(dcm, addr) ==
  IF addr \in DOMAIN dcm THEN [dcm EXCEPT ![addr] = CloseChannel(@)] ELSE dcm

on_decrypt_error(addr) ==
  /\ daemon_channel_map' = disconnect_daemon(Drain(daemon_channel_map), addr)
  /\ web_channel_map' = Drain(web_channel_map)
  /\ UNCHANGED <<index_vars, daemon_loops, web_loops, scenario, node_vars, key_vars, running, daemon_passed, web_passed>>

\* encryption::decrypt_packet under Server::handle_packet: a frame that does
\* not decrypt panics the task at expect("should decrypt"), before the error
\* callback; a token of the wrong issuer runs the callback; anything else goes
\* to on_packet.
decrypt_packet(packet, addr) ==
  \/ packet.id = "Undecryptable" /\ TaskEndsEarly
  \/ packet.id = "WrongIssuer" /\ on_decrypt_error(addr)
  \/ on_packet(packet, addr)

\* web.rs decrypt_packet: both failures are an Err that handle_packet returns
\* with `?`; the caller logs it.
web_decrypt_packet(packet, addr) ==
  \/ packet.id \in {"Undecryptable", "WrongIssuer"} /\ TaskEndsEarly
  \/ handle_packet(packet, addr)

\* A spawned task runs: the handler of its frame, start to end.
DaemonTask(t) ==
  /\ t \in tasks /\ t.side = "daemon"
  /\ decrypt_packet(t.packet, t.addr)
  /\ tasks' = tasks \ {t}
  /\ UNCHANGED used

WebTask(t) ==
  /\ t \in tasks /\ t.side = "web"
  /\ web_decrypt_packet(t.packet, t.addr)
  /\ tasks' = tasks \ {t}
  /\ UNCHANGED used

\* A peer that follows the protocol: its Auth is the first frame of its
\* connection, its HandshakeResponse echoes the challenge it was sent, and the
\* server handles each of the two frames before anything else happens.
DaemonLogin(addr) ==
  /\ addr \in daemon_loops /\ tasks = {}
  /\ ~daemon_channel_map[addr].closed
  /\ \/ /\ ~daemon_channel_map[addr].handshake.some
        /\ \E uuid \in Uuids : handle_auth(addr, uuid)
     \/ /\ daemon_channel_map[addr].handshake.some
        /\ daemon_passed[addr] = NoId
        /\ handle_handshake_response(addr, daemon_channel_map[addr].handshake.challenge)
  /\ UNCHANGED <<tasks, used>>

WebLogin(addr) ==
  /\ addr \in web_loops /\ tasks = {}
  /\ ~web_channel_map[addr].closed
  /\ \/ /\ ~web_channel_map[addr].handshake.some
        /\ \E user_id \in UserIds : web_handle_auth(addr, user_id)
     \/ /\ web_channel_map[addr].handshake.some
        /\ addr \notin web_passed
        /\ web_handle_handshake_response(addr, web_channel_map[addr].handshake.challenge)
  /\ UNCHANGED <<tasks, used>>

Next ==
  \/ \E addr \in DaemonAddrs : DaemonAccept(addr)
  \/ \E addr \in WebAddrs : WebAccept(addr)
  \/ \E addr \in DaemonAddrs : DaemonLogin(addr)
  \/ \E addr \in WebAddrs : WebLogin(addr)
  \/ \E addr \in DaemonAddrs : DaemonDeliver(addr)
  \/ \E addr \in WebAddrs : WebDeliver(addr)
  \/ \E addr \in DaemonAddrs : DaemonDisconnect(addr)
  \/ \E addr \in WebAddrs : WebDisconnect(addr)
  \/ \E t \in tasks : DaemonTask(t)
  \/ \E t \in tasks : WebTask(t)

Spec == Init /\ [][Next]_vars

\* handle_client, the writer half of select: rx.map(Ok).forward(write) completes
\* once the channel is closed and what was queued on it has been written.
DaemonWriterEnds(addr) ==
  /\ addr \in DOMAIN daemon_channel_map /\ daemon_channel_map[addr].closed
  /\ DaemonDisconnect(addr)

WebWriterEnds(addr) ==
  /\ addr \in DOMAIN web_channel_map /\ web_channel_map[addr].closed
  /\ WebDisconnect(addr)

\* The runs in which channels get closed: the peers that deviate.
LiveInit == Init /\ scenario.strays = MaxStrays

\* The runtime polls a writer whose channel is closed until it completes; when
\* a peer ends its reader is the peer's choice.
LiveSpec ==
  /\ LiveInit /\ [][Next]_vars
  /\ \A addr \in DaemonAddrs : WF_vars(DaemonWriterEnds(addr))
  /\ \A addr \in WebAddrs : WF_vars(WebWriterEnds(addr))

\* ------------------------------------------------------------- properties
\* The daemons that WebListen records for (addr, type).
Listening(wlm, addr, type) ==
  IF addr \in DOMAIN wlm /\ type \in DOMAIN wlm[addr] THEN wlm[addr][type] ELSE {}

\* What a step left on the channel of addr.
Enqueued(map, addr) == IF addr \in DOMAIN map THEN map[addr].q ELSE <<>>

\* Two listen maps with the same keys, inner keys and sets.
SameListenMap(f, g) ==
  /\ DOMAIN f = DOMAIN g
  /\ \A k \in DOMAIN f :
       /\ DOMAIN f[k] = DOMAIN g[k]
       /\ \A e \in DOMAIN f[k] : f[k][e] = g[k][e]

SameIdMap(f, g) == DOMAIN f = DOMAIN g /\ \A k \in DOMAIN f : f[k] = g[k]

\* The connection from addr is running, has answered the challenge issued for
\* uuid, and uuid is the identity its handshake holds.
DaemonAuthenticated(addr, uuid) ==
  /\ addr \in daemon_loops
  /\ daemon_passed[addr] = uuid
  /\ daemon_channel_map[addr].handshake.id = uuid

\* A subscriber to which send_event_from_server can deliver.
Deliverable(addr) ==
  /\ addr \in DOMAIN web_channel_map
  /\ web_channel_map[addr].handshake.some
  /\ CanSend(web_channel_map[addr])

\* C1: whenever no handler is pending, a web peer w is in DaemonListen[d][e]
\* exactly when d is in WebListen[w][e], for every daemon d, event type e and
\* web peer w.
C1_ListenMapsMirror ==
  tasks = {} =>
    \A d \in Uuids, e \in EventType, w \in WebAddrs :
      (w \in Subscribers(daemon_listen_map, d, e)) <=> (d \in Listening(web_listen_map, w, e))

\* C2: the step in which the disconnect hook of web peer w runs leaves w in no
\* subscriber set DaemonListen[d][e], whatever w or an earlier connection from
\* the same address subscribed to and whatever order the pairs are visited in.
C2_RemoveWebPrunes ==
  [][\A w \in web_loops \ web_loops' :
       \A d \in Uuids, e \in EventType : w \notin Subscribers(daemon_listen_map', d, e)]_vars

\* C3: when the handler of a DSEvent of type e runs for a connection that is
\* authenticated as daemon d, and every subscriber of (d, e) can be delivered
\* to, the step enqueues exactly one SWEvent{daemon: d, event} on the channel of
\* every web peer in DaemonListen[d][e] and nothing on any other web channel;
\* with the set absent or empty it enqueues nothing.
C3_EventFanOut ==
  [][\A t \in tasks \ tasks', d \in Uuids :
       ( /\ t.packet.id = "DSEvent"
         /\ DaemonAuthenticated(t.addr, d)
         /\ \A w \in Subscribers(daemon_listen_map, d, t.packet.data.type) : Deliverable(w) )
       => \A w \in WebAddrs :
            Enqueued(web_channel_map', w) =
              IF w \in Subscribers(daemon_listen_map, d, t.packet.data.type)
              THEN <<SWEventPacket(d, t.packet.data)>>
              ELSE <<>>]_vars

\* C3 happens: both web peers have just been handed the same event of daemon d1.
C3_Witness ==
  \A w \in WebAddrs :
    /\ Len(Enqueued(web_channel_map, w)) = 1
    /\ Enqueued(web_channel_map, w)[1].id = "SWEvent"
    /\ Enqueued(web_channel_map, w)[1].daemon = "d1"
    /\ Enqueued(web_channel_map, w)[1].event.n = 1

\* C4: the SWEvent of a later DSEvent of a connection authenticated as daemon d
\* is not enqueued on the channel of an authenticated web peer while an earlier
\* DSEvent of the same connection, to whose type the peer is subscribed as
\* well, has not been handled yet.
C4_EventOrder ==
  [][\A t2 \in tasks \ tasks', t1 \in tasks', w \in web_passed, d \in Uuids :
       ( /\ t2.packet.id = "DSEvent" /\ t1.packet.id = "DSEvent"
         /\ t1.addr = t2.addr
         /\ t1.packet.data.n < t2.packet.data.n
         /\ DaemonAuthenticated(t1.addr, d)
         /\ w \in Subscribers(daemon_listen_map, d, t1.packet.data.type)
         /\ w \in Subscribers(daemon_listen_map, d, t2.packet.data.type) )
       => Enqueued(web_channel_map', w) = <<>>]_vars

\* C5: for every running connection authenticated as daemon d, DaemonIdIndex[d]
\* exists and names a connection of DaemonChannels whose handshake holds d,
\* also after an older connection authenticated as d has disconnected.
C5_IndexFollowsAuthenticated ==
  \A a \in DaemonAddrs, d \in Uuids :
    DaemonAuthenticated(a, d) =>
      /\ d \in DOMAIN daemon_id_map
      /\ daemon_id_map[d] \in DOMAIN daemon_channel_map
      /\ daemon_channel_map[daemon_id_map[d]].handshake.id = d

\* C6: the step in which a connection a2 completes the handshake as daemon d
\* while another connection a1 authenticated as d is in DaemonChannels closes
\* the channel of a1 and leaves DaemonIdIndex[d] = a2.
C6_Supersession ==
  [][\A a1, a2 \in DaemonAddrs, d \in Uuids :
       ( /\ a1 # a2
         /\ daemon_passed[a2] # d /\ daemon_passed'[a2] = d
         /\ DaemonAuthenticated(a1, d) )
       => /\ a1 \in DOMAIN daemon_channel_map' /\ daemon_channel_map'[a1].closed
          /\ d \in DOMAIN daemon_id_map' /\ daemon_id_map'[d] = a2]_vars

\* C7: the step in which the disconnect hook runs for a connection
\* authenticated as daemon d leaves d out of DaemonIdIndex and the connection
\* out of DaemonChannels, and leaves DaemonListen[d] and all of WebListen as
\* they were.
C7_DaemonDisconnectFrame ==
  [][\A a \in daemon_loops \ daemon_loops', d \in Uuids :
       DaemonAuthenticated(a, d) =>
         /\ d \notin DOMAIN daemon_id_map'
         /\ a \notin DOMAIN daemon_channel_map'
         /\ (d \in DOMAIN daemon_listen_map) = (d \in DOMAIN daemon_listen_map')
         /\ d \in DOMAIN daemon_listen_map =>
              /\ DOMAIN daemon_listen_map'[d] = DOMAIN daemon_listen_map[d]
              /\ \A e \in DOMAIN daemon_listen_map[d] :
                   daemon_listen_map'[d][e] = daemon_listen_map[d][e]
         /\ SameListenMap(web_listen_map', web_listen_map)]_vars

\* C7 happens: the connection from a1, authenticated as d1 and followed by no
\* stray frame, has disconnected while d1 has a subscriber.
C7_Witness ==
  /\ "a1" \notin daemon_loops /\ daemon_passed["a1"] = "d1" /\ used.strays = 0
  /\ "a1" \notin DOMAIN daemon_channel_map
  /\ Subscribers(daemon_listen_map, "d1", "NodeStatus") # {}

\* C8: the step that handles a WSListen of an authenticated web peer w naming
\* (NodeStatus, d) with d not in DaemonIdIndex enqueues exactly one
\* SWEvent{daemon: d, NodeStatus offline} on the channel of w and nothing on
\* the channel of a daemon connection whose handshake holds d.
C8_OfflineStatus ==
  [][\A t \in tasks \ tasks', d \in Uuids \ DOMAIN daemon_id_map :
       ( /\ t.packet.id = "WSListen"
         /\ t.addr \in web_loops /\ t.addr \in web_passed
         /\ CanSend(web_channel_map[t.addr])
         /\ \E i \in 1..Len(t.packet.events) :
              t.packet.events[i].event = "NodeStatus" /\ d \in t.packet.events[i].daemons )
       => /\ Cardinality({i \in 1..Len(Enqueued(web_channel_map', t.addr)) :
                            /\ Enqueued(web_channel_map', t.addr)[i].id = "SWEvent"
                            /\ Enqueued(web_channel_map', t.addr)[i].daemon = d
                            /\ Enqueued(web_channel_map', t.addr)[i].event = OfflineEvent}) = 1
          /\ \A a \in DOMAIN daemon_channel_map' :
               daemon_channel_map'[a].handshake.id = d => daemon_channel_map'[a].q = <<>>]_vars

\* C9: the step that handles a HandshakeResponse whose challenge differs from
\* the challenge of the connection's handshake closes the connection's channel
\* and enqueues no AuthResponse; on the daemon side it leaves DaemonIdIndex
\* unchanged and enqueues no SDListen.
C9_WrongChallenge ==
  [][\A t \in tasks \ tasks' :
       /\ ( /\ t.packet.id = "DSHandshakeResponse"
            /\ t.addr \in DOMAIN daemon_channel_map
            /\ daemon_channel_map[t.addr].handshake.some
            /\ t.packet.challenge # daemon_channel_map[t.addr].handshake.challenge )
          => /\ daemon_channel_map'[t.addr].closed
             /\ \A a \in DOMAIN daemon_channel_map' : daemon_channel_map'[a].q = <<>>
             /\ SameIdMap(daemon_id_map', daemon_id_map)
       /\ ( /\ t.packet.id = "WSHandshakeResponse"
            /\ t.addr \in DOMAIN web_channel_map
            /\ web_channel_map[t.addr].handshake.some
            /\ t.packet.challenge # web_channel_map[t.addr].handshake.challenge )
          => /\ web_channel_map'[t.addr].closed
             /\ web_channel_map'[t.addr].q = <<>>]_vars

\* C9 happens: a running daemon connection and a running web connection have
\* both had their channel closed by a wrong HandshakeResponse.
C9_Witness ==
  /\ \E a \in daemon_loops : daemon_channel_map[a].closed
  /\ \E w \in web_loops : web_channel_map[w].closed

\* C10: the step that handles a DSEvent of a running daemon connection, or a
\* WSListen of a running web connection, that has not answered its challenge
\* closes the connection's channel, enqueues nothing on any channel and leaves
\* DaemonListen, WebListen and DaemonIdIndex unchanged.
C10_PreAuthRejected ==
  [][\A t \in tasks \ tasks' :
       /\ ( /\ t.packet.id = "DSEvent"
            /\ t.addr \in daemon_loops /\ daemon_passed[t.addr] = NoId )
          => /\ daemon_channel_map'[t.addr].closed
             /\ \A w \in DOMAIN web_channel_map' : web_channel_map'[w].q = <<>>
             /\ SameListenMap(daemon_listen_map', daemon_listen_map)
             /\ SameListenMap(web_listen_map', web_listen_map)
             /\ SameIdMap(daemon_id_map', daemon_id_map)
       /\ ( /\ t.packet.id = "WSListen"
            /\ t.addr \in web_loops /\ t.addr \notin web_passed )
          => /\ web_channel_map'[t.addr].closed
             /\ \A w \in DOMAIN web_channel_map' : web_channel_map'[w].q = <<>>
             /\ \A a \in DOMAIN daemon_channel_map' : daemon_channel_map'[a].q = <<>>
             /\ SameListenMap(daemon_listen_map', daemon_listen_map)
             /\ SameListenMap(web_listen_map', web_listen_map)
             /\ SameIdMap(daemon_id_map', daemon_id_map)]_vars

\* C11: on a registered connection with an open channel, the step that
\* handles an Auth for identity i stores a handshake for i and enqueues exactly
\* one HandshakeRequest carrying the stored challenge; the step that handles a
\* HandshakeResponse echoing the stored challenge enqueues one
\* AuthResponse{success: true} and leaves the record in place with the same
\* handshake identity.
C11_HandshakeSucceeds ==
  [][\A t \in tasks \ tasks' :
       /\ ( /\ t.packet.id = "DSAuth"
            /\ t.addr \in DOMAIN daemon_channel_map
            /\ CanSend(daemon_channel_map[t.addr]) )
          => /\ daemon_channel_map'[t.addr].handshake.some
             /\ daemon_channel_map'[t.addr].handshake.id = t.packet.daemon_uuid
             /\ daemon_channel_map'[t.addr].q =
                  <<HandshakeRequest(daemon_channel_map'[t.addr].handshake.challenge)>>
       /\ ( /\ t.packet.id = "WSAuth"
            /\ t.addr \in DOMAIN web_channel_map
            /\ CanSend(web_channel_map[t.addr]) )
          => /\ web_channel_map'[t.addr].handshake.some
             /\ web_channel_map'[t.addr].handshake.id = t.packet.user_id
             /\ web_channel_map'[t.addr].q =
                  <<HandshakeRequest(web_channel_map'[t.addr].handshake.challenge)>>
       /\ ( /\ t.packet.id = "DSHandshakeResponse"
            /\ t.addr \in DOMAIN daemon_channel_map
            /\ CanSend(daemon_channel_map[t.addr])
            /\ daemon_channel_map[t.addr].handshake.some
            /\ t.packet.challenge = daemon_channel_map[t.addr].handshake.challenge )
          => /\ t.addr \in DOMAIN daemon_channel_map'
             /\ daemon_channel_map'[t.addr].handshake = daemon_channel_map[t.addr].handshake
             /\ Len(daemon_channel_map'[t.addr].q) >= 1
             /\ daemon_channel_map'[t.addr].q[1] = AuthResponse
             /\ \A i \in 2..Len(daemon_channel_map'[t.addr].q) :
                  daemon_channel_map'[t.addr].q[i].id # "AuthResponse"
       /\ ( /\ t.packet.id = "WSHandshakeResponse"
            /\ t.addr \in DOMAIN web_channel_map
            /\ CanSend(web_channel_map[t.addr])
            /\ web_channel_map[t.addr].handshake.some
            /\ t.packet.challenge = web_channel_map[t.addr].handshake.challenge )
          => /\ t.addr \in DOMAIN web_channel_map'
             /\ web_channel_map'[t.addr].handshake = web_channel_map[t.addr].handshake
             /\ web_channel_map'[t.addr].q = <<AuthResponse>>]_vars

\* C11 happens: a daemon connection whose Auth and HandshakeResponse both
\* arrived as spawned frames has just been sent its AuthResponse.
C11_Witness ==
  /\ used.strays = 2 /\ tasks = {}
  /\ \E a \in daemon_loops :
       /\ daemon_passed[a] = daemon_channel_map[a].handshake.id
       /\ daemon_channel_map[a].q = <<AuthResponse>>

\* The handshakes of all records, by side.
Handshakes(map) == [a \in DOMAIN map |-> map[a].handshake]

\* C12: the step that handles a text frame that fails decryption, or whose
\* token names another issuer than the listener expects, leaves the peer's send
\* channel closed and changes no handshake, index or subscription.
C12_DecryptFailureCloses ==
  [][\A t \in tasks \ tasks' :
       t.packet.id \in {"Undecryptable", "WrongIssuer"}
       => /\ (t.side = "daemon" /\ t.addr \in DOMAIN daemon_channel_map)
               => /\ t.addr \in DOMAIN daemon_channel_map'
                  /\ daemon_channel_map'[t.addr].closed
          /\ (t.side = "web" /\ t.addr \in DOMAIN web_channel_map)
               => /\ t.addr \in DOMAIN web_channel_map'
                  /\ web_channel_map'[t.addr].closed
          /\ Handshakes(daemon_channel_map') = Handshakes(daemon_channel_map)
          /\ Handshakes(web_channel_map') = Handshakes(web_channel_map)
          /\ UNCHANGED index_vars]_vars

\* C13: a connection whose send channel has been closed has its transport loop
\* end and its disconnect hook run; the hook runs for connections whose loop is
\* running only, and ends the loop, so it runs once per accepted connection.
C13_CloseLeadsToDisconnect ==
  /\ \A a \in DaemonAddrs :
       (a \in daemon_loops /\ daemon_channel_map[a].closed) ~> (a \notin daemon_loops)
  /\ \A w \in WebAddrs :
       (w \in web_loops /\ web_channel_map[w].closed) ~> (w \notin web_loops)

\* C13 happens: a daemon connection that never sent an Auth had its channel
\* closed by disconnect_daemon and its loop has not ended yet.
C13_Witness ==
  \E a \in daemon_loops :
    /\ daemon_channel_map[a].closed
    /\ ~daemon_channel_map[a].handshake.some

\* The event types of daemon uuid that have a subscriber.
SubscribedEvents(dlm, uuid) == {e \in EventType : Subscribers(dlm, uuid, e) # {}}

\* C14: the step in which a connection completes the handshake of daemon d
\* (AuthResponse{success: true} is enqueued on it) while web peers are
\* subscribed to d enqueues, right after the AuthResponse, one SDListen whose
\* events are exactly the event types subscribed for d.
C14_ListenAfterAuth ==
  [][\A a \in DOMAIN daemon_channel_map' :
       LET q == daemon_channel_map'[a].q
           d == daemon_channel_map'[a].handshake.id
       IN ( /\ Len(q) >= 1 /\ q[1] = AuthResponse
            /\ SubscribedEvents(daemon_listen_map, d) # {} )
          => /\ Len(q) = 2
             /\ q[2] = SDListenPacket(SubscribedEvents(daemon_listen_map, d))]_vars

\* C14 happens: the second daemon connection of a run, alone on its listener,
\* has completed the handshake and been sent the subscriptions that were there.
C14_Witness ==
  /\ used.daemons = 2
  /\ \E a \in DaemonAddrs :
       /\ daemon_loops = {a}
       /\ Len(daemon_channel_map[a].q) = 2
       /\ daemon_channel_map[a].q[1] = AuthResponse
       /\ daemon_channel_map[a].q[2].id = "SDListen"
       /\ daemon_channel_map[a].q[2].events # {}

\* C15: the disconnect hook of web peer w enqueues, on the channel of every
\* daemon d that w was subscribed to and that the id map resolves to a live
\* connection, one SDListen listing exactly the event types that still have a
\* subscriber, and leaves w in no subscriber set, so that no later event of d
\* goes to w.
C15_WebDisconnectUpdatesDaemons ==
  [][\A w \in web_loops \ web_loops' :
       /\ \A d \in DOMAIN daemon_id_map :
            ( /\ \E e \in EventType : d \in Listening(web_listen_map, w, e)
              /\ daemon_id_map[d] \in DOMAIN daemon_channel_map
              /\ daemon_channel_map[daemon_id_map[d]].handshake.some
              /\ CanSend(daemon_channel_map[daemon_id_map[d]]) )
            => Enqueued(daemon_channel_map', daemon_id_map[d]) =
                 <<SDListenPacket(SubscribedEvents(daemon_listen_map', d))>>
       /\ \A d \in Uuids, e \in EventType :
            w \notin Subscribers(daemon_listen_map', d, e)]_vars

\* C16: the disconnect hook of a web peer leaves no entry for its address in
\* the web channel map or the web listen map, and a connection accepted from an
\* address starts with no entry in the web listen map.
C16_WebDisconnectForgets ==
  [][/\ \A w \in web_loops \ web_loops' :
          /\ w \notin DOMAIN web_channel_map'
          /\ w \notin DOMAIN web_listen_map'
     /\ \A w \in web_loops' \ web_loops :
          \A e \in EventType : Listening(web_listen_map', w, e) = {}]_vars

\* C17: the disconnect hook of a connection authenticated as daemon d removes
\* the connection from the daemon channel map and d from the id map, and
\* enqueues exactly one SWEvent{daemon: d, NodeStatus offline} on the channel of
\* every authenticated web peer of DaemonListen[d][NodeStatus] whose channel is
\* open.
C17_OfflineOnDisconnect ==
  [][\A a \in daemon_loops \ daemon_loops', d \in Uuids :
       DaemonAuthenticated(a, d)
       => /\ a \notin DOMAIN daemon_channel_map'
          /\ d \notin DOMAIN daemon_id_map'
          /\ \A w \in Subscribers(daemon_listen_map, d, "NodeStatus") :
               (w \in web_passed /\ Deliverable(w))
               => Enqueued(web_channel_map', w) = <<SWEventPacket(d, OfflineEvent)>>]_vars

\* C18: every entry DaemonIdIndex[d] = a names an address a of the daemon
\* channel map whose handshake holds d and whose connection has answered the
\* challenge issued for d.
C18_IndexEntriesLive ==
  \A d \in DOMAIN daemon_id_map :
    LET a == daemon_id_map[d] IN
      /\ a \in DOMAIN daemon_channel_map
      /\ daemon_channel_map[a].handshake.id = d
      /\ daemon_passed[a] = d

\* C19: whenever no handler is pending, no inner map of DaemonListen or
\* WebListen is empty and no subscriber set or daemon set stored in them is
\* empty.
C19_NoEmptyEntries ==
  tasks = {} =>
    /\ \A d \in DOMAIN daemon_listen_map :
         /\ DOMAIN daemon_listen_map[d] # {}
         /\ \A e \in DOMAIN daemon_listen_map[d] : daemon_listen_map[d][e] # {}
    /\ \A w \in DOMAIN web_listen_map :
         /\ DOMAIN web_listen_map[w] # {}
         /\ \A e \in DOMAIN web_listen_map[w] : web_listen_map[w][e] # {}

\* C20: when the handler of a DSEvent of type e runs for a connection
\* authenticated as daemon d, every subscriber of (d, e) that can be delivered
\* to is enqueued the event, whether or not the delivery to another subscriber
\* fails, and no connection record, index or subscription changes.
C20_FailureIsolated ==
  [][\A t \in tasks \ tasks', d \in Uuids :
       ( /\ t.packet.id = "DSEvent"
         /\ DaemonAuthenticated(t.addr, d) )
       => /\ \A w \in Subscribers(daemon_listen_map, d, t.packet.data.type) :
               Deliverable(w)
               => Enqueued(web_channel_map', w) = <<SWEventPacket(d, t.packet.data)>>
          /\ Drain(web_channel_map') = Drain(web_channel_map)
          /\ Drain(daemon_channel_map') = Drain(daemon_channel_map)
          /\ UNCHANGED index_vars]_vars

\* C21: the step in which the disconnect hook of a connection runs leaves its
\* address out of the daemon channel map (the web channel map for a web
\* connection), whatever handshake the connection had.
C21_DisconnectRemovesRecord ==
  [][/\ \A a \in daemon_loops \ daemon_loops' : a \notin DOMAIN daemon_channel_map'
     /\ \A w \in web_loops \ web_loops' : w \notin DOMAIN web_channel_map']_vars

\* The (event, daemon) pairs a WSListen names.
RequestPairs(events) ==
  {p \in EventType \X Uuids :
     \E i \in 1..Len(events) : events[i].event = p[1] /\ p[2] \in events[i].daemons}

\* C22: the step that handles a WSListen of an authenticated web peer w leaves
\* WebListen[w] holding exactly the (event, daemon) pairs the request names,
\* leaves w subscribed in DaemonListen to exactly those pairs, and enqueues an
\* SDListen with the keys of DaemonListen[d] on the connection of every named
\* daemon d that the id map resolves to a connection with an open channel.
C22_ListenRewrites ==
  [][\A t \in tasks \ tasks' :
       ( /\ t.packet.id = "WSListen"
         /\ t.addr \in web_loops /\ t.addr \in web_passed
         /\ CanSend(web_channel_map[t.addr]) )
       => /\ t.addr \in DOMAIN web_listen_map'
          /\ ListenPairs(web_listen_map'[t.addr]) = RequestPairs(t.packet.events)
          /\ \A d \in Uuids, e \in EventType :
               t.addr \in Subscribers(daemon_listen_map', d, e)
                 <=> <<e, d>> \in RequestPairs(t.packet.events)
          /\ \A d \in DOMAIN daemon_id_map :
               ( /\ \E e \in EventType : <<e, d>> \in RequestPairs(t.packet.events)
                 /\ daemon_id_map[d] \in DOMAIN daemon_channel_map
                 /\ daemon_channel_map[daemon_id_map[d]].handshake.some
                 /\ CanSend(daemon_channel_map[daemon_id_map[d]]) )
               => Enqueued(daemon_channel_map', daemon_id_map[d]) =
                    <<SDListenPacket(SubscribedEvents(daemon_listen_map', d))>>]_vars

\* ------------------------------------------- the daemon's engine (src/daemon/src/docker)
\* Option<T>.
Some(v) == [some |-> TRUE, v |-> v]

None == [some |-> FALSE]

\* packet::server_daemon::sync: the parts of a Server that create_server branches on.
EnvDef(key, required, env_type, regex, min, max, trim) ==
  [key |-> key, required |-> required, env_type |-> env_type, regex |-> regex,
   min |-> min, max |-> max, trim |-> trim]

Env(key, value) == [key |-> key, value |-> value]

Mount(container_path, host_path) == [container_path |-> container_path, host_path |-> host_path]

ServerNetwork(network, ip) == [network |-> network, ip |-> ip]

Tag(image, mounts, env_defs) == [image |-> image, mounts |-> mounts, env_defs |-> env_defs]

Server(id, tag, envs, networks) == [id |-> id, tag |-> tag, envs |-> envs, networks |-> networks]

\* A String is the sequence of its characters; the values of the model are ASCII,
\* so that len() is the number of characters.
Digits == {"0", "1", "2", "3", "4", "5", "6", "7", "8", "9"}

DigitValue(c) ==
  CASE c = "0" -> 0 [] c = "1" -> 1 [] c = "2" -> 2 [] c = "3" -> 3 [] c = "4" -> 4
    [] c = "5" -> 5 [] c = "6" -> 6 [] c = "7" -> 7 [] c = "8" -> 8 [] c = "9" -> 9

RECURSIVE digits_value(_)
digits_value(digits) ==
  IF digits = <<>> THEN 0
  ELSE 10 * digits_value(SubSeq(digits, 1, Len(digits) - 1)) + DigitValue(digits[Len(digits)])

\* str::parse::<i64>: an optional sign and one digit at least, nothing else; the
\* values of the model are too short to leave the range of i64.
parse_i64(value) ==
  LET signed == value # <<>> /\ Head(value) \in {"+", "-"}
      digits == IF signed THEN Tail(value) ELSE value
  IN IF digits = <<>> \/ \E i \in 1..Len(digits) : digits[i] \notin Digits THEN None
     ELSE IF signed /\ Head(value) = "-" THEN Some(0 - digits_value(digits))
     ELSE Some(digits_value(digits))

\* str::trim.
RECURSIVE trim(_)
trim(value) ==
  IF value = <<>> THEN value
  ELSE IF Head(value) = " " THEN trim(Tail(value))
  ELSE IF value[Len(value)] = " " THEN trim(SubSeq(value, 1, Len(value) - 1))
  ELSE value

\* Regex::new and is_match, for the patterns of the model.
regex_new(pattern) == pattern # "("

is_match(pattern, value) ==
  CASE pattern = "^[0-9]+$" -> value # <<>> /\ \A i \in 1..Len(value) : value[i] \in Digits
    [] OTHER -> FALSE

\* `.collect::<HashMap<_, _>>()`: of two envs with one key the later one stays.
envs_map(envs) ==
  [k \in {envs[i].key : i \in 1..Len(envs)} |->
     envs[CHOOSE i \in 1..Len(envs) :
            envs[i].key = k /\ \A j \in (i + 1)..Len(envs) : envs[j].key # k]]

\* `len < min as usize` and `len > max as usize`: the cast of a negative i64
\* gives a usize above every length.
below_min(len, min) == IF min < 0 THEN TRUE ELSE len < min

above_max(len, max) == IF max < 0 THEN FALSE ELSE len > max

\* create_server, one turn of the loop over env_defs: "ok" or the error.
check_env_def(envs, env_def) ==
  LET exists == env_def.key \in DOMAIN envs /\ envs[env_def.key].value # <<>> IN
    IF env_def.required /\ ~exists THEN "Missing required env"
    ELSE IF ~exists THEN "ok"
    ELSE LET env == envs[env_def.key] IN
      CASE env_def.env_type = "Boolean" ->
             IF env.value # <<"1">> /\ env.value # <<"0">> THEN "is not a boolean value" ELSE "ok"
        [] env_def.env_type = "Number" ->
             LET parsed == parse_i64(env.value) IN
               IF ~parsed.some THEN "is not a number"
               ELSE IF env_def.min.some /\ parsed.v < env_def.min.v THEN "is below the minimum value"
               ELSE IF env_def.max.some /\ parsed.v > env_def.max.v THEN "is above the maximum value"
               ELSE "ok"
        [] env_def.env_type = "String" ->
             LET value == IF env_def.trim THEN trim(env.value) ELSE env.value
                 len == Len(value)
             IN IF env_def.regex.some /\ ~regex_new(env_def.regex.v) THEN "invalid regex"
                ELSE IF env_def.regex.some /\ ~is_match(env_def.regex.v, value)
                  THEN "does not match regex"
                ELSE IF env_def.min.some /\ below_min(len, env_def.min.v)
                  THEN "is below the minimum length"
                ELSE IF env_def.max.some /\ above_max(len, env_def.max.v)
                  THEN "is above the maximum length"
                ELSE "ok"

\* The loop: the first error ends it.
RECURSIVE check_env_defs(_, _)
check_env_defs(envs, env_defs) ==
  IF env_defs = <<>> THEN "ok"
  ELSE LET r == check_env_def(envs, Head(env_defs)) IN
    IF r # "ok" THEN r ELSE check_env_defs(envs, Tail(env_defs))
\* ---------------------------------------------------------------- camino paths
\* A path is the sequence of its characters; Utf8Path::components gives its
\* components: the root, then one per segment between separators, empty
\* segments and "." dropped (a leading "." of a relative path stays as CurDir).
RootDir == [kind |-> "RootDir", name |-> <<>>]

CurDir == [kind |-> "CurDir", name |-> <<>>]

ParentDir == [kind |-> "ParentDir", name |-> <<>>]

Normal(name) == [kind |-> "Normal", name |-> name]

RECURSIVE split(_)
split(chars) ==
  IF \A i \in 1..Len(chars) : chars[i] # "/" THEN <<chars>>
  ELSE LET i == CHOOSE k \in 1..Len(chars) :
                  chars[k] = "/" /\ \A j \in 1..(k - 1) : chars[j] # "/"
       IN <<SubSeq(chars, 1, i - 1)>> \o split(SubSeq(chars, i + 1, Len(chars)))

RECURSIVE segment_components(_, _)
segment_components(segments, leading) ==
  IF segments = <<>> THEN <<>>
  ELSE LET s == Head(segments)
           c == IF s = <<>> THEN <<>>
                ELSE IF s = <<".">> THEN (IF leading THEN <<CurDir>> ELSE <<>>)
                ELSE IF s = <<".", ".">> THEN <<ParentDir>>
                ELSE <<Normal(s)>>
       IN c \o segment_components(Tail(segments), FALSE)

components(chars) ==
  IF chars = <<>> THEN <<>>
  ELSE IF Head(chars) = "/" THEN <<RootDir>> \o segment_components(split(Tail(chars)), FALSE)
  ELSE segment_components(split(chars), TRUE)

\* `unsafe_path.strip_prefix("/").unwrap_or(unsafe_path)`.
strip_prefix(path) == IF path # <<>> /\ Head(path) = RootDir THEN Tail(path) ELSE path

NotCurDir(component) == component # CurDir

\* Utf8Path::join: an absolute path replaces the base, a relative one is
\* appended to it (its leading "." is then inside the path and dropped).
join(base, path) ==
  IF path # <<>> /\ Head(path) = RootDir THEN path ELSE base \o SelectSeq(path, NotCurDir)

\* create_server, the loop over joined_path.components().
RECURSIVE resolve(_, _)
resolve(done, rest) ==
  IF rest = <<>> THEN done
  ELSE IF Head(rest) = ParentDir /\ done # <<>> /\ done[Len(done)].kind = "Normal"
    THEN resolve(SubSeq(done, 1, Len(done) - 1), Tail(rest))
  ELSE resolve(Append(done, Head(rest)), Tail(rest))

\* Utf8Path::starts_with: whole components.
starts_with(path, base) == Len(path) >= Len(base) /\ SubSeq(path, 1, Len(base)) = base

\* `components.iter().collect::<Utf8PathBuf>().into_string()`.
RECURSIVE path_string(_)
path_string(path) ==
  IF path = <<>> THEN <<>>
  ELSE LET c == Head(path)
           s == CASE c.kind = "RootDir" -> <<"/">>
                  [] c.kind = "CurDir" -> <<".">>
                  [] c.kind = "ParentDir" -> <<".", ".">>
                  [] OTHER -> c.name
       IN IF Tail(path) = <<>> \/ c.kind = "RootDir" THEN s \o path_string(Tail(path))
          ELSE s \o <<"/">> \o path_string(Tail(path))

\* format!("/tmp/aesterisk/data/{}/", server.id), for the one-digit ids of the model.
server_data(id) ==
  <<"/", "t", "m", "p", "/", "a", "e", "s", "t", "e", "r", "i", "s", "k",
    "/", "d", "a", "t", "a", "/", ToString(id), "/">>

\* create_server's closure without the loop over the components: the joined
\* path is tested as it is.
validate_mount_unresolved(id, mount) ==
  LET data_path == components(server_data(id))
      safe_path == strip_prefix(components(mount.host_path))
      path == join(data_path, safe_path)
  IN IF starts_with(path, data_path)
       THEN Some([target |-> mount.container_path, source |-> path_string(path)])
       ELSE None

\* create_server, the closure of filter_map: the Mount handed on, or None.
validate_mount(id, mount) ==
  LET data_path == components(server_data(id))
      safe_path == strip_prefix(components(mount.host_path))
      path == resolve(<<>>, join(data_path, safe_path))
  IN IF starts_with(path, data_path)
       THEN Some([target |-> mount.container_path, source |-> path_string(path)])
       ELSE None

RECURSIVE validate_mounts(_, _)
validate_mounts(id, mounts) ==
  IF mounts = <<>> THEN <<>>
  ELSE LET m == validate_mount(id, Head(mounts)) IN
    (IF m.some THEN <<m.v>> ELSE <<>>) \o validate_mounts(id, Tail(mounts))

\* -------------------------------------------------------------- docker::network
Ok(d) == [ok |-> TRUE, docker |-> d]

Err(d, e) == [ok |-> FALSE, docker |-> d, err |-> e]

\* The engine's create_network with check_duplicate: a second network of one
\* name is refused, and so is one whose subnet another network has.
engine_create_network(d, network) ==
  IF \E n \in d.networks :
       n.name = network.name \/ (n.subnet = network.subnet /\ network.subnet # <<>>)
    THEN Err(d, "Could not create docker network")
  ELSE Ok([d EXCEPT !.networks = @ \cup {network}])

create_network(d, id, subnet) ==
  engine_create_network(d, [name |-> <<"ae_nw", id>>, driver |-> "bridge",
                            subnet |-> <<10, 133, subnet, 0, 24>>,
                            labels |-> [version |-> 0, id |-> id, nicc |-> 0]])

create_nicc(d) ==
  engine_create_network(d, [name |-> <<"ae_nicc", 0>>, driver |-> "bridge", subnet |-> <<>>,
                            labels |-> [version |-> 0, nicc |-> 1]])

\* The networks of this program that are not the NICC, as (id, subnet).
get_networks(d) ==
  {[id |-> n.labels.id, subnet |-> n.subnet[3]] :
     n \in {n \in d.networks : "version" \in DOMAIN n.labels /\ n.labels.nicc = 0}}

get_docker_network(d, id) ==
  {n \in d.networks : "id" \in DOMAIN n.labels /\ n.labels.id = id /\ n.labels.version = 0}

\* A lookup that reports no network.
network_exists_never(d, id) == FALSE

network_exists(d, id) == get_docker_network(d, id) # {}

get_nicc(d) ==
  IF \E n \in d.networks : n.labels.version = 0 /\ n.labels.nicc = 1 THEN Ok(d) ELSE create_nicc(d)

\* --------------------------------------------------------------- docker::server
get_server(d, id) == {c \in d.containers : c.labels.id = id /\ c.labels.version = 0}

server_exists(d, id) == get_server(d, id) # {}

\* An image the registry does not have cannot be pulled.
create_image(d, image) ==
  IF image = "missing" THEN Err(d, "Could not create Docker image")
  ELSE Ok([d EXCEPT !.images = @ \cup {image}])

\* The engine refuses a second container of one name.
create_container(d, container) ==
  IF \E c \in d.containers : c.name = container.name
    THEN Err(d, "Could not create Docker container")
  ELSE Ok([d EXCEPT !.containers = @ \cup {container}])

start_container(d, name) ==
  [d EXCEPT !.containers = {IF c.name = name THEN [c EXCEPT !.running = TRUE] ELSE c : c \in @}]

\* create_server from the pull of the image on.
create_server_container(d, s, nicc, mounts) ==
  LET pulled == create_image(d, s.tag.image)
      subnets == get_networks(pulled.docker)
      envs == envs_map(s.envs)
      endpoints ==
        IF nicc THEN {[network |-> <<"ae_nicc", 0>>, ipv4_address |-> <<>>]}
        ELSE {[network |-> <<"ae_nw", s.networks[i].network>>,
               ipv4_address |-> <<10, 133,
                 (CHOOSE n \in subnets : n.id = s.networks[i].network).subnet,
                 s.networks[i].ip>>] : i \in 1..Len(s.networks)}
      created ==
        create_container(pulled.docker,
          [name |-> <<"ae_sv", s.id>>, image |-> s.tag.image,
           env |-> {<<k, envs[k].value>> : k \in DOMAIN envs},
           labels |-> [version |-> 0, id |-> s.id],
           endpoints |-> endpoints, mounts |-> mounts, running |-> FALSE])
  IN IF ~pulled.ok THEN pulled
     ELSE IF ~nicc /\ \E i \in 1..Len(s.networks) :
                        \A n \in subnets : n.id # s.networks[i].network
       THEN Err(pulled.docker, "network not found")
     ELSE IF ~created.ok THEN created
     ELSE Ok(start_container(created.docker, <<"ae_sv", s.id>>))

\* create_server: the environment is validated, the NICC obtained for a server
\* without networks, the mounts validated under the data directory, the image
\* pulled and the container created and started.
create_server(d, s) ==
  LET checked == check_env_defs(envs_map(s.envs), s.tag.env_defs)
      nicc == IF s.networks = <<>> THEN get_nicc(d) ELSE Ok(d)
      with_dir == IF s.tag.mounts # <<>>
                    THEN [nicc.docker EXCEPT !.data_dirs = @ \cup {server_data(s.id)}]
                    ELSE nicc.docker
      mounts == validate_mounts(s.id, s.tag.mounts)
  IN IF checked # "ok" THEN Err(d, checked)
     ELSE IF ~nicc.ok THEN nicc
     ELSE create_server_container(with_dir, s, s.networks = <<>>, mounts)
\* ------------------------------------------------- create_server on its own
hub_vars == <<daemon_channel_map, web_channel_map, daemon_listen_map, web_listen_map,
              daemon_id_map, daemon_loops, web_loops, tasks, scenario, used,
              daemon_passed, web_passed, running>>

\* The server program with no peer at all.
HubIdle ==
  /\ daemon_channel_map = EmptyMap
  /\ web_channel_map = EmptyMap
  /\ daemon_listen_map = EmptyMap
  /\ web_listen_map = EmptyMap
  /\ daemon_id_map = EmptyMap
  /\ daemon_loops = {}
  /\ web_loops = {}
  /\ tasks = {}
  /\ scenario = [daemons |-> 0, webs |-> 0, listens |-> 0, events |-> 0, strays |-> 0,
                 pending |-> 0]
  /\ used = [daemons |-> 0, webs |-> 0, listens |-> 0, events |-> 0, strays |-> 0]
  /\ daemon_passed = [a \in DaemonAddrs |-> NoId]
  /\ web_passed = {}
  /\ running = {}
  /\ KeysIdle

MaxPathLen == 6

\* The values, bounds and definitions that the environments of the runs draw on.
EnvValues ==
  {<<>>, <<"0">>, <<"1">>, <<"3">>, <<"-", "1">>, <<"a">>, <<" ", "1">>, <<" ">>,
   <<"a", "a", "a">>, <<" ", "a", " ">>}

EnvBounds == {None, Some(-1), Some(1), Some(2)}

EnvDefs ==
  {EnvDef("K", required, env_type, regex, min, max, tr) :
     required \in BOOLEAN, env_type \in {"Boolean", "Number", "String"},
     regex \in {None, Some("^[0-9]+$"), Some("(")}, min \in EnvBounds, max \in EnvBounds,
     tr \in BOOLEAN}

PlainTag == Tag("nginx", <<>>, <<>>)

\* One definition and at most one env of its key; two definitions, so that the
\* loop goes on after a valid one; two envs of one key.
EnvServers ==
  {Server(1, [PlainTag EXCEPT !.env_defs = <<def>>], envs, <<>>) :
     def \in EnvDefs, envs \in {<<>>} \cup {<<Env("K", v)>> : v \in EnvValues}}
  \cup
  {Server(1, [PlainTag EXCEPT !.env_defs =
                <<EnvDef("L", TRUE, "Boolean", None, None, None, FALSE),
                  EnvDef("K", required, "Number", None, Some(1), Some(2), FALSE)>>],
          <<Env("K", v), Env("L", w), Env("K", u)>>, <<>>) :
     required \in BOOLEAN, v \in EnvValues, w \in {<<"0">>, <<"a">>},
     u \in {<<>>, <<"1">>, <<"3">>}}

PathChars == {"/", ".", "1", "a"}

HostPaths == UNION {[1..n -> PathChars] : n \in 0..MaxPathLen}

\* One mount of any host path; two mounts, the first of them outside.
MountServers ==
  {Server(1, [PlainTag EXCEPT !.mounts = <<Mount("/data", p)>>], <<>>, <<>>) : p \in HostPaths}
  \cup
  {Server(1, [PlainTag EXCEPT !.mounts = <<Mount("/etc", <<".", ".">>), Mount("/data", p)>>],
          <<>>, <<>>) : p \in {q \in HostPaths : Len(q) <= 4}}

\* Servers on a network, and servers whose image cannot be pulled.
NetworkServers ==
  {Server(id, Tag(image, <<>>, <<>>), <<>>, networks) :
     id \in 1..2, image \in {"nginx", "missing"},
     networks \in {<<>>, <<ServerNetwork(1, 2)>>, <<ServerNetwork(2, 2)>>}}

\* The engines a call finds: nothing, the network 1 and the NICC, and these
\* with the container of server 1.
NetworkEngine == create_nicc(create_network(EmptyEngine, 1, 7).docker).docker

ServerEngine == create_server(NetworkEngine, Server(1, PlainTag, <<>>, <<>>)).docker

CreateInit ==
  /\ HubIdle
  /\ docker \in {EmptyEngine, NetworkEngine, ServerEngine}
  /\ server \in EnvServers \cup MountServers \cup NetworkServers
  /\ result = NotCalled
  /\ ServicesIdle

\* One call of create_server.
CreateServer ==
  /\ ~result.called
  /\ LET r == create_server(docker, server) IN
       /\ docker' = r.docker
       /\ result' = [called |-> TRUE, ok |-> r.ok]
  /\ UNCHANGED <<server, hub_vars, key_vars, service_vars>>

CreateNext == CreateServer

CreateSpec == CreateInit /\ [][CreateNext]_vars
\* The value the environment gives for the key of env_def, <<>> if none.
EnvValue(s, env_def) ==
  IF env_def.key \in DOMAIN envs_map(s.envs) THEN envs_map(s.envs)[env_def.key].value ELSE <<>>

\* What the specification asks of one env definition.
EnvAcceptable(s, env_def) ==
  LET value == EnvValue(s, env_def)
      number == parse_i64(value)
      length == IF env_def.trim THEN Len(trim(value)) ELSE Len(value)
  IN IF value = <<>> THEN ~env_def.required
     ELSE CASE env_def.env_type = "Boolean" -> value \in {<<"0">>, <<"1">>}
            [] env_def.env_type = "Number" ->
                 /\ number.some
                 /\ env_def.min.some => number.v >= env_def.min.v
                 /\ env_def.max.some => number.v <= env_def.max.v
            [] env_def.env_type = "String" ->
                 /\ env_def.min.some => length >= env_def.min.v
                 /\ env_def.max.some => length <= env_def.max.v

\* C24: create_server accepts a server only if every env definition is
\* satisfied (a required key has a non-empty value, a present Boolean is "0"
\* or "1", a present Number is an integer within its bounds, the length of a
\* present String, trimmed if asked, is within its bounds); a violation makes
\* the call fail before any image is pulled and any container created.
C24_EnvValidated ==
  [][(~result.called /\ result'.called
      /\ \E i \in 1..Len(server.tag.env_defs) : ~EnvAcceptable(server, server.tag.env_defs[i]))
     => /\ ~result'.ok
        /\ docker'.images = docker.images
        /\ docker'.containers = docker.containers]_vars

\* Where the host's file system finds a path: every ".." leaves the directory
\* reached so far, and the root is its own parent.
RECURSIVE Canonical(_, _)
Canonical(done, rest) ==
  IF rest = <<>> THEN done
  ELSE IF Head(rest) = ParentDir
    THEN Canonical(IF Len(done) > 1 THEN SubSeq(done, 1, Len(done) - 1) ELSE done, Tail(rest))
  ELSE Canonical(Append(done, Head(rest)), Tail(rest))

\* The source is the data directory of server id or below it.
InsideData(id, source) ==
  LET data == components(server_data(id))
      found == Canonical(<<>>, components(source))
  IN Len(found) >= Len(data) /\ \A i \in 1..Len(data) : found[i] = data[i]

\* The host path, its leading "/" stripped, joined under the data directory,
\* each ".." taking away the normal component before it.
ResolvedUnderData(id, host_path) ==
  LET relative == IF host_path # <<>> /\ Head(host_path) = "/" THEN Tail(host_path)
                  ELSE host_path
  IN resolve(<<>>, components(server_data(id) \o relative))

\* The mounts that are to be handed on: those resolved to the data directory
\* or below it, in the order declared.
RECURSIVE MountsUnderData(_, _)
MountsUnderData(id, mounts) ==
  IF mounts = <<>> THEN <<>>
  ELSE LET path == ResolvedUnderData(id, Head(mounts).host_path) IN
    (IF starts_with(path, components(server_data(id)))
       THEN <<[target |-> Head(mounts).container_path, source |-> path_string(path)]>>
       ELSE <<>>) \o MountsUnderData(id, Tail(mounts))

\* The container that a call made for the server.
CreatedContainer(d, id) == CHOOSE c \in d.containers : c.name = <<"ae_sv", id>>

\* C25: the mounts handed to the engine are the declared mounts whose host
\* path, joined under the data directory of the server with each ".." popping
\* the normal component before it, starts with that directory; the source of
\* each lies in the data directory; and a mount that is not handed on does not
\* make create_server fail.
C25_MountsConfined ==
  [][(~result.called /\ result'.called /\ server.tag.mounts # <<>>)
     => /\ (server.tag.image # "missing" /\ ~server_exists(docker, server.id)) => result'.ok
        /\ result'.ok =>
             LET mounts == CreatedContainer(docker', server.id).mounts IN
               /\ mounts = MountsUnderData(server.id, server.tag.mounts)
               /\ \A i \in 1..Len(mounts) : InsideData(server.id, mounts[i].source)]_vars

\* A call that dropped one mount and handed on another whose path has a "..".
C25_Witness ==
  /\ result.called /\ result.ok
  /\ Len(server.tag.mounts) = 2
  /\ Len(CreatedContainer(docker, server.id).mounts) = 1
  /\ server.tag.mounts[2].host_path = <<"a", "/", ".", ".">>

\* ------------------------------------------------ the daemon's services and sync
Network(id, subnet) == [id |-> id, subnet |-> subnet]

SDSyncPacket(networks, servers) == [networks |-> networks, servers |-> servers]

MaxSyncs == 2

MaxAttempts == 2

\* The snapshots of the runs: a server on its network; a second network whose
\* subnet the engine refuses; servers without network, the second of them with
\* an environment that is not valid; a server on a network not in the snapshot.
SyncPackets ==
  { SDSyncPacket(<<Network(1, 7)>>, <<Server(1, PlainTag, <<>>, <<ServerNetwork(1, 2)>>)>>),
    SDSyncPacket(<<Network(1, 7), Network(2, 7)>>, <<>>),
    SDSyncPacket(<<>>,
      <<Server(1, PlainTag, <<>>, <<>>),
        Server(2, [PlainTag EXCEPT !.env_defs =
                     <<EnvDef("K", TRUE, "Boolean", None, None, None, FALSE)>>], <<>>, <<>>)>>),
    SDSyncPacket(<<Network(2, 8)>>,
      <<Server(2, PlainTag, <<>>, <<ServerNetwork(1, 3)>>),
        Server(1, PlainTag, <<>>, <<>>)>>) }

\* CancellationToken::is_cancelled of a child token: cancel() was called on it
\* or on the token of the services.
is_cancelled(tok) == token \/ tok \in child_tokens.cancelled

\* server_status::get_cancellation_token: the token held, a new child if none.
get_cancellation_token(tokens) ==
  IF tokens.current = 0 THEN [tokens EXCEPT !.current = tokens.made + 1, !.made = @ + 1]
  ELSE tokens

\* services::start: the two services are spawned.
ServicesStart ==
  /\ client.pc = "idle" /\ node_status = "idle"
  /\ client' = [client EXCEPT !.pc = "loop"]
  /\ node_status' = "running"
  /\ UNCHANGED <<hub_vars, key_vars, listen_vars, docker, server, result, token, child_tokens, syncs, stats,
                 sender>>

\* The holder of the token cancels it.
Cancel ==
  /\ client.pc # "idle" /\ ~token
  /\ token' = TRUE
  /\ UNCHANGED <<hub_vars, key_vars, listen_vars, docker, server, result, child_tokens, syncs, stats,
                 sender, client, node_status>>

\* client::run from the head of the loop to select!: a new channel replaces
\* SENDER, LISTENS is emptied and connect_to_server is spawned on the receiver.
ClientConnect ==
  /\ client.pc = "loop"
  /\ sender' = [sender EXCEPT !.current = client.attempts + 1]
  /\ client' = [pc |-> "select", attempts |-> client.attempts + 1,
                connections |-> client.connections \cup {client.attempts + 1}]
  /\ LISTENS' = {}
  /\ UNCHANGED <<hub_vars, key_vars, listen_tasks, outbound, docker, server, result, token,
                 child_tokens, syncs, stats, node_status>>

\* connect_to_server returns: the connection could not be made, the server
\* closed it, or the channel it forwards from was closed.
ConnectionEnds(c) ==
  /\ c \in client.connections
  /\ c \in sender.closed \/ client.attempts < MaxAttempts
  /\ client' = [client EXCEPT !.connections = @ \ {c}]
  /\ UNCHANGED <<hub_vars, key_vars, listen_vars, docker, server, result, token, child_tokens, syncs, stats,
                 sender, node_status>>

\* client::run, select!: the spawned connection has returned.
ClientDisconnected ==
  /\ client.pc = "select" /\ client.attempts \notin client.connections
  /\ client' = [client EXCEPT !.pc = "tick"]
  /\ UNCHANGED <<hub_vars, key_vars, listen_vars, docker, server, result, token, child_tokens, syncs, stats,
                 sender, node_status>>

\* client::run, interval.tick() in the branch of the connection.
ClientTick ==
  /\ client.pc = "tick"
  /\ client' = [client EXCEPT !.pc = "loop"]
  /\ UNCHANGED <<hub_vars, key_vars, listen_vars, docker, server, result, token, child_tokens, syncs, stats,
                 sender, node_status>>

\* client::run, select!: the token is cancelled; SENDER is taken and closed.
ClientCancelled ==
  /\ client.pc = "select" /\ token
  /\ sender' = IF sender.current # 0
                 THEN [current |-> 0, closed |-> sender.closed \cup {sender.current}]
                 ELSE sender
  /\ client' = [client EXCEPT !.pc = "returned"]
  /\ UNCHANGED <<hub_vars, key_vars, listen_vars, docker, server, result, token, child_tokens, syncs,
                 stats, node_status>>

\* node_status::run, select!: the token is cancelled.
NodeStatusCancelled ==
  /\ node_status = "running" /\ token
  /\ node_status' = "returned"
  /\ UNCHANGED <<hub_vars, key_vars, listen_vars, docker, server, result, token, child_tokens, syncs, stats,
                 sender, client>>

\* The SDSync packets handled to the end.
handled == {t.packet : t \in {u \in syncs : u.pc = "done"}}

\* connect_to_server, a frame with an SDSync: its handler is spawned.  `k` tells
\* the handlers apart, `again` records that the packet was handled to the end
\* before this handler began.
SyncReceived(packet) ==
  /\ client.connections # {}
  /\ Cardinality(syncs) < MaxSyncs
  /\ syncs' = syncs \cup {[k |-> Cardinality(syncs) + 1, packet |-> packet,
                           pc |-> "networks", i |-> 1, again |-> packet \in handled]}
  /\ UNCHANGED <<hub_vars, key_vars, listen_vars, docker, server, result, token, child_tokens, stats, sender,
                 client, node_status>>

Goto(t, pc, i) == (syncs \ {t}) \cup {[t EXCEPT !.pc = pc, !.i = i]}

\* tokio::spawn(server_status::start(id)).
spawn_stats(tasks_, id) ==
  tasks_ \cup {[k |-> Cardinality(tasks_) + 1, id |-> id, pc |-> "start", tok |-> 0]}

\* sync::handle, the loop over the networks up to the answer of network_exists.
SyncNetworkLookup(t) ==
  /\ t.pc = "networks"
  /\ syncs' = IF t.i > Len(t.packet.networks) THEN Goto(t, "stop_services", 1)
              ELSE IF network_exists(docker, t.packet.networks[t.i].id)
                THEN Goto(t, "networks", t.i + 1)
              ELSE Goto(t, "create_network", t.i)
  /\ UNCHANGED <<hub_vars, key_vars, listen_vars, docker, server, result, token, child_tokens, stats, sender,
                 client, node_status>>

\* sync::handle, create_network for a network that was not found.
SyncCreateNetwork(t) ==
  /\ t.pc = "create_network"
  /\ LET nw == t.packet.networks[t.i]
         r == create_network(docker, nw.id, nw.subnet)
     IN /\ docker' = r.docker
        /\ syncs' = IF r.ok THEN Goto(t, "networks", t.i + 1) ELSE Goto(t, "failed", t.i)
  /\ UNCHANGED <<hub_vars, key_vars, listen_vars, server, result, token, child_tokens, stats, sender, client,
                 node_status>>

\* server_status::stop_services up to cancel(): the token held, or a new one,
\* is cancelled.
SyncStopServices(t) ==
  /\ t.pc = "stop_services"
  /\ LET got == get_cancellation_token(child_tokens) IN
       child_tokens' = [got EXCEPT !.cancelled = @ \cup {got.current}]
  /\ syncs' = Goto(t, "take", 1)
  /\ UNCHANGED <<hub_vars, key_vars, listen_vars, docker, server, result, token, stats, sender, client,
                 node_status>>

\* server_status::stop_services, `CANCELLATION_TOKEN.lock().await.take()`.
SyncTakeToken(t) ==
  /\ t.pc = "take"
  /\ child_tokens' = [child_tokens EXCEPT !.current = 0]
  /\ syncs' = Goto(t, "servers", 1)
  /\ UNCHANGED <<hub_vars, key_vars, listen_vars, docker, server, result, token, stats, sender, client,
                 node_status>>

\* sync::handle, the loop over the servers up to the answer of server_exists;
\* the stats service of a server that exists is spawned at once.
SyncServerLookup(t) ==
  /\ t.pc = "servers"
  /\ IF t.i > Len(t.packet.servers)
       THEN syncs' = Goto(t, "done", 1) /\ stats' = stats
     ELSE IF server_exists(docker, t.packet.servers[t.i].id)
       THEN /\ syncs' = Goto(t, "servers", t.i + 1)
            /\ stats' = spawn_stats(stats, t.packet.servers[t.i].id)
     ELSE syncs' = Goto(t, "create_server", t.i) /\ stats' = stats
  /\ UNCHANGED <<hub_vars, key_vars, listen_vars, docker, server, result, token, child_tokens, sender, client,
                 node_status>>

\* sync::handle, create_server for a server that was not found, and the spawn
\* of its stats service.
SyncCreateServer(t) ==
  /\ t.pc = "create_server"
  /\ LET r == create_server(docker, t.packet.servers[t.i]) IN
       /\ docker' = r.docker
       /\ syncs' = IF r.ok THEN Goto(t, "servers", t.i + 1) ELSE Goto(t, "failed", t.i)
       /\ stats' = IF r.ok THEN spawn_stats(stats, t.packet.servers[t.i].id) ELSE stats
  /\ UNCHANGED <<hub_vars, key_vars, listen_vars, server, result, token, child_tokens, sender, client,
                 node_status>>

\* server_status::start up to the loop: the task gets its token.
StatsStart(s) ==
  /\ s.pc = "start"
  /\ child_tokens' = get_cancellation_token(child_tokens)
  /\ stats' = (stats \ {s}) \cup {[s EXCEPT !.pc = "loop", !.tok = child_tokens'.current]}
  /\ UNCHANGED <<hub_vars, key_vars, listen_vars, docker, server, result, token, syncs, sender, client,
                 node_status>>

\* server_status::start, select!: the token of the task is cancelled.
StatsCancelled(s) ==
  /\ s.pc = "loop" /\ is_cancelled(s.tok)
  /\ stats' = (stats \ {s}) \cup {[s EXCEPT !.pc = "exited"]}
  /\ UNCHANGED <<hub_vars, key_vars, listen_vars, docker, server, result, token, child_tokens, syncs, sender,
                 client, node_status>>

\* The daemon: its services run, SDSync packets arrive and the token is cancelled.
NodeInit ==
  /\ HubIdle
  /\ docker \in {EmptyEngine, NetworkEngine}
  /\ server = NoServer
  /\ result = NotCalled
  /\ ServicesIdle

NodeNext ==
  \/ ServicesStart
  \/ Cancel
  \/ ClientConnect
  \/ \E c \in client.connections : ConnectionEnds(c)
  \/ ClientDisconnected
  \/ ClientTick
  \/ ClientCancelled
  \/ NodeStatusCancelled
  \/ \E packet \in SyncPackets : SyncReceived(packet)
  \/ \E t \in syncs : SyncNetworkLookup(t)
  \/ \E t \in syncs : SyncCreateNetwork(t)
  \/ \E t \in syncs : SyncStopServices(t)
  \/ \E t \in syncs : SyncTakeToken(t)
  \/ \E t \in syncs : SyncServerLookup(t)
  \/ \E t \in syncs : SyncCreateServer(t)
  \/ \E s \in stats : StatsStart(s)
  \/ \E s \in stats : StatsCancelled(s)

NodeSpec == NodeInit /\ [][NodeNext]_vars

\* The handler that took the step, as it is after the step.
SyncStepped(t) == CHOOSE u \in syncs' \ syncs : u.k = t.k

\* C23: the handler of an SDSync calls create_network only for a network that
\* the label lookup of the engine does not report, and the network made is a
\* bridge of subnet 10.133.{subnet}.0/24; it calls create_server only for a
\* server that is not present; so a handler of a snapshot that was handled to
\* the end before makes neither call, leaves the engine as it is and ends well.
C23_SyncCreatesMissingOnly ==
  [][\A t \in syncs \ syncs' :
       LET u == SyncStepped(t) IN
         /\ u.pc = "create_network"
              => get_docker_network(docker, u.packet.networks[u.i].id) = {}
         /\ u.pc = "create_server" => get_server(docker, u.packet.servers[u.i].id) = {}
         /\ t.pc = "create_network" /\ u.pc # "failed"
              => \E n \in docker'.networks \ docker.networks :
                   /\ n.driver = "bridge"
                   /\ n.subnet = <<10, 133, t.packet.networks[t.i].subnet, 0, 24>>
                   /\ n.labels.id = t.packet.networks[t.i].id
         /\ t.again => /\ u.pc \notin {"create_network", "create_server", "failed"}
                       /\ docker' = docker]_vars

\* A snapshot with a network and a server has been handled a second time.
C23_Witness ==
  \E t \in syncs :
    /\ t.again /\ t.pc = "done"
    /\ t.packet.networks # <<>> /\ t.packet.servers # <<>>
    /\ docker.networks # {} /\ docker.containers # {}

\* The runtime polls a task that can go on: the client service, the node-status
\* service and the stats tasks take the steps that are open to them; select!
\* takes a branch that is ready.  When packets arrive, connections end and the
\* token is cancelled is up to the environment.
NodeLiveSpec ==
  /\ NodeInit /\ [][NodeNext]_vars
  /\ WF_vars(ClientConnect)
  /\ WF_vars(ClientDisconnected)
  /\ WF_vars(ClientTick)
  /\ WF_vars(ClientCancelled)
  /\ WF_vars(NodeStatusCancelled)
  /\ WF_vars(\E s \in stats : StatsStart(s))
  /\ WF_vars(\E s \in stats : StatsCancelled(s))

\* C26: once the token is cancelled the client service makes no further
\* connection attempt; it returns with the outbound sender taken and closed,
\* the node-status service returns and every stats task exits.
C26_CancelStopsServices ==
  /\ [][token => client'.attempts = client.attempts]_vars
  /\ [](client.pc = "returned"
          => sender.current = 0 /\ (client.attempts > 0 => client.attempts \in sender.closed))
  /\ token ~> (/\ client.pc = "returned"
               /\ node_status = "returned"
               /\ \A s \in stats : s.pc = "exited")

\* C27: every SWEvent{daemon: d} that the handler of a DSEvent enqueues comes
\* from a connection that answered the challenge issued for d; a connection
\* that only sent DSAuth{d}, whatever it authenticated as before, gets no event
\* fanned out under d.
C27_EventsFromAuthenticated ==
  [][\A t \in tasks \ tasks' :
       t.side = "daemon" /\ t.packet.id = "DSEvent"
         => \A w \in DOMAIN web_channel_map' :
              \A i \in 1..Len(web_channel_map'[w].q) :
                web_channel_map'[w].q[i].id = "SWEvent"
                  => daemon_passed[t.addr] = web_channel_map'[w].q[i].daemon]_vars

\* C29: when the connection that disconnects has passed no challenge, its
\* disconnect leaves DaemonIdIndex as it is and no NodeStatus{online: false} is
\* sent to any web peer.
C29_UnauthenticatedDisconnectSilent ==
  [][\A a \in daemon_loops \ daemon_loops' :
       daemon_passed[a] = NoId
         => /\ daemon_id_map' = daemon_id_map
            /\ \A w \in DOMAIN web_channel_map' :
                 \A i \in 1..Len(web_channel_map'[w].q) :
                   ~(/\ web_channel_map'[w].q[i].id = "SWEvent"
                     /\ web_channel_map'[w].q[i].event = OfflineEvent)]_vars

\* The addresses that hold a subscription in either listen map.
Subscribed(dlm, wlm) ==
  DOMAIN wlm \cup UNION {UNION {dlm[d][e] : e \in DOMAIN dlm[d]} : d \in DOMAIN dlm}

\* C30: the handler of a WSListen that runs when the record of its peer is gone
\* from WebChannels adds nothing to DaemonListen and WebListen, and whenever no
\* handler is pending no address absent from WebChannels holds a subscription.
C30_NoListenAfterDisconnect ==
  /\ [][\A t \in tasks \ tasks' :
          (t.side = "web" /\ t.packet.id = "WSListen" /\ t.addr \notin DOMAIN web_channel_map)
            => /\ daemon_listen_map' = daemon_listen_map
               /\ web_listen_map' = web_listen_map]_vars
  /\ [](tasks = {} => Subscribed(daemon_listen_map, web_listen_map) \subseteq DOMAIN web_channel_map)

\* ------------------------------------ handlers of the server, guard by guard
\* The handlers run on the threads of the runtime and exclude one another only
\* while they hold a guard of a DashMap.  A handler is followed here from one
\* release of its guards to the next; the queues are left as they fill, so that
\* the last SDListen of a queue is the most recent one enqueued.
MaxRacing == 3

Disconnected == [id |-> "Disconnected"]

Handler(side, addr, packet) ==
  [side |-> side, addr |-> addr, packet |-> packet, pc |-> "start", offline_daemons |-> {},
   update_daemons |-> <<>>, to |-> NoId, events |-> {}]

\* What the peers of these runs do: the daemon answers its challenge, each web
\* peer subscribes to one event of the daemon, and the web peers leave.
RaceHandlers ==
  { Handler("daemon", "a1", DSHandshakeResponsePacket("c1")),
    Handler("web", "w1", WSListenPacket(<<[event |-> "NodeStatus", daemons |-> {"d1"}]>>)),
    Handler("web", "w2", WSListenPacket(<<[event |-> "ServerStatus", daemons |-> {"d1"}]>>)),
    Handler("web", "w1", Disconnected),
    Handler("web", "w2", Disconnected) }

\* The state the handlers start from: the daemon connection has sent DSAuth{d1},
\* both web peers are authenticated, what was enqueued so far has been written;
\* w2 may have subscribed to (ServerStatus, d1) already.
RaceChannels ==
  [daemon_channel_map |->
     Drain(send_daemon_handshake_request(add_daemon(EmptyMap, "a1"), "a1", "d1", "c1").map),
   web_channel_map |->
     Drain(authenticate_web(
       send_web_handshake_request(
         authenticate_web(
           send_web_handshake_request(add_web(add_web(EmptyMap, "w1"), "w2"),
                                      "w1", "u1", "c1").map, "w1", "c1").map,
         "w2", "u1", "c1").map, "w2", "c1").map)]

RaceSubscribed ==
  send_listen(RaceChannels.daemon_channel_map, RaceChannels.web_channel_map, EmptyMap,
              EmptyMap, EmptyMap, "w2",
              <<[event |-> "ServerStatus", daemons |-> {"d1"}]>>,
              [d \in {} |-> <<>>], <<>>, <<"d1">>)

RaceInit ==
  /\ daemon_channel_map = RaceChannels.daemon_channel_map
  /\ web_channel_map = RaceChannels.web_channel_map
  /\ \/ daemon_listen_map = EmptyMap /\ web_listen_map = EmptyMap
     \/ /\ daemon_listen_map = RaceSubscribed.daemon_listen_map
        /\ web_listen_map = RaceSubscribed.web_listen_map
  /\ daemon_id_map = EmptyMap
  /\ daemon_loops = {"a1"}
  /\ web_loops = {"w1", "w2"}
  /\ tasks = {}
  /\ scenario = [daemons |-> 1, webs |-> 2, listens |-> 2, events |-> 0, strays |-> 0,
                 pending |-> MaxRacing]
  /\ used = [daemons |-> 1, webs |-> 2, listens |-> 0, events |-> 0, strays |-> 0]
  /\ daemon_passed = [a \in DaemonAddrs |-> NoId]
  /\ web_passed = {"w1", "w2"}
  /\ running = {}
  /\ KeysIdle
  /\ NodeIdle

Begun(h) == \E g \in running : g.side = h.side /\ g.addr = h.addr /\ g.packet = h.packet

Step(h, pc) == (running \ {h}) \cup {[h EXCEPT !.pc = pc]}

\* handle_client: the handler of a frame is spawned, or the loop of a web peer
\* ends and its hook begins.  The frames of a peer are read before its loop ends.
RaceBegin(h) ==
  /\ ~Begun(h)
  /\ Cardinality(running) < MaxRacing
  /\ h.side = "web" => ~Begun(Handler("web", h.addr, Disconnected))
  /\ running' = running \cup {h}
  /\ web_loops' = IF h.packet = Disconnected THEN web_loops \ {h.addr} ELSE web_loops
  /\ UNCHANGED <<daemon_channel_map, web_channel_map, index_vars, daemon_loops, tasks,
                 scenario, used, daemon_passed, web_passed, node_vars, key_vars>>

\* authenticate_daemon up to the release of the guard of the listen map: the
\* challenge is compared, AuthResponse and the SDListen of the keys read are
\* enqueued.
AuthAnswer(h) ==
  /\ h \in running /\ h.pc = "start" /\ h.packet.id = "DSHandshakeResponse"
  /\ LET r == authenticate_daemon(daemon_channel_map, daemon_listen_map, daemon_id_map,
                                  h.addr, h.packet.challenge)
     IN /\ daemon_channel_map' = r.map
        /\ running' = Step(h, IF r.ok THEN "register" ELSE "done")
        /\ daemon_passed' = IF r.ok
                            THEN [daemon_passed EXCEPT ![h.addr] = daemon_channel_map[h.addr].handshake.id]
                            ELSE daemon_passed
  /\ UNCHANGED <<web_channel_map, index_vars, daemon_loops, web_loops, tasks, scenario, used,
                 web_passed, node_vars, key_vars>>

\* authenticate_daemon, `self.daemon_id_map.insert(uuid, addr)`.
AuthRegister(h) ==
  /\ h \in running /\ h.pc = "register"
  /\ daemon_id_map' = Put(daemon_id_map, daemon_channel_map[h.addr].handshake.id, h.addr)
  /\ running' = Step(h, "done")
  /\ UNCHANGED <<daemon_channel_map, web_channel_map, daemon_listen_map, web_listen_map,
                 daemon_loops, web_loops, tasks, scenario, used, daemon_passed, web_passed,
                 node_vars, key_vars>>

\* send_listen, first block: the insertions.  The daemons that the id map does
\* not hold at this point are kept in offline_daemons.
ListenInsert(h) ==
  /\ h \in running /\ h.pc = "start" /\ h.packet.id = "WSListen"
  /\ LET ins == listen_insert([daemon_listen_map |-> daemon_listen_map,
                               web_listen_map |-> web_listen_map,
                               update_daemons |-> {}, offline_daemons |-> {}],
                              daemon_id_map, h.addr, h.packet.events, 1)
     IN /\ daemon_listen_map' = ins.daemon_listen_map
        /\ web_listen_map' = ins.web_listen_map
        /\ \E update_order \in SeqPerms(ins.update_daemons) :
             running' = (running \ {h}) \cup
               {[h EXCEPT !.pc = "offline", !.offline_daemons = ins.offline_daemons,
                          !.update_daemons = update_order]}
  /\ UNCHANGED <<daemon_channel_map, web_channel_map, daemon_id_map, daemon_loops, web_loops,
                 tasks, scenario, used, daemon_passed, web_passed, node_vars, key_vars>>

\* send_listen, the loop over offline_daemons: the offline statuses of the
\* daemons kept by the insertions are sent.
ListenOffline(h) ==
  /\ h \in running /\ h.pc = "offline"
  /\ \E order \in [h.offline_daemons -> SeqPerms(WebAddrs)],
        offline_order \in SeqPerms(h.offline_daemons) :
       LET off == offline_daemons_loop(web_channel_map, daemon_listen_map, offline_order, order)
       IN /\ web_channel_map' = off.web_channel_map
          /\ running' = (running \ {h}) \cup
               {IF off.ok THEN [h EXCEPT !.pc = "update", !.offline_daemons = {}]
                ELSE [h EXCEPT !.pc = "done"]}
  /\ UNCHANGED <<daemon_channel_map, index_vars, daemon_loops, web_loops, tasks, scenario,
                 used, daemon_passed, web_passed, node_vars, key_vars>>

\* remove_web up to the loop over update_daemons: the record is removed and the
\* address taken out of the subscriber sets.
DisconnectRemove(h) ==
  /\ h \in running /\ h.pc = "start" /\ h.packet = Disconnected
  /\ \E pairs \in (IF h.addr \in DOMAIN web_listen_map
                   THEN VisitOrders(web_listen_map[h.addr]) ELSE {<<>>}) :
       LET loop == IF h.addr \in DOMAIN web_listen_map
                   THEN remove_web_loop(daemon_listen_map, h.addr, pairs, {})
                   ELSE [daemon_listen_map |-> daemon_listen_map, update_daemons |-> {},
                         ok |-> TRUE]
       IN /\ web_channel_map' = Remove(web_channel_map, h.addr)
          /\ daemon_listen_map' = loop.daemon_listen_map
          /\ \E update_order \in SeqPerms(loop.update_daemons) :
               running' = (running \ {h}) \cup
                 {IF loop.ok THEN [h EXCEPT !.pc = "update", !.update_daemons = update_order]
                  ELSE [h EXCEPT !.pc = "done"]}
  /\ web_passed' = web_passed \ {h.addr}
  /\ UNCHANGED <<daemon_channel_map, web_listen_map, daemon_id_map, daemon_loops, web_loops,
                 tasks, scenario, used, daemon_passed, node_vars, key_vars>>

\* The loop over update_daemons and update_listens_for_daemon up to the release
\* of the guard of the listen map: the address of the daemon is looked up and
\* the keys of its listen map are collected.
UpdateRead(h) ==
  /\ h \in running /\ h.pc = "update"
  /\ running' = (running \ {h}) \cup
       {IF h.update_daemons = <<>> THEN [h EXCEPT !.pc = "done"]
        ELSE LET daemon == Head(h.update_daemons) IN
          IF daemon \notin DOMAIN daemon_id_map
            THEN [h EXCEPT !.update_daemons = Tail(@)]
          ELSE IF daemon_id_map[daemon] \notin DOMAIN daemon_channel_map
                  \/ daemon \notin DOMAIN daemon_listen_map
            THEN [h EXCEPT !.pc = "done"]
          ELSE [h EXCEPT !.pc = "send", !.to = daemon_id_map[daemon],
                         !.events = DOMAIN daemon_listen_map[daemon]]}
  /\ UNCHANGED <<daemon_channel_map, web_channel_map, index_vars, daemon_loops, web_loops,
                 tasks, scenario, used, daemon_passed, web_passed, node_vars, key_vars>>

\* update_listens_for_daemon, `socket.tx.unbounded_send`: the keys collected
\* are sent.
UpdateSend(h) ==
  /\ h \in running /\ h.pc = "send"
  /\ IF daemon_channel_map[h.to].handshake.some /\ CanSend(daemon_channel_map[h.to])
       THEN /\ daemon_channel_map' =
                 Put(daemon_channel_map, h.to,
                     Enqueue(daemon_channel_map[h.to], SDListenPacket(h.events)))
            /\ running' = (running \ {h}) \cup
                 {[h EXCEPT !.pc = "update", !.update_daemons = Tail(@), !.to = NoId,
                            !.events = {}]}
       ELSE /\ daemon_channel_map' = daemon_channel_map
            /\ running' = Step(h, "done")
  /\ UNCHANGED <<web_channel_map, index_vars, daemon_loops, web_loops, tasks, scenario, used,
                 daemon_passed, web_passed, node_vars, key_vars>>

RaceNext ==
  \/ \E h \in RaceHandlers : RaceBegin(h)
  \/ \E h \in running : AuthAnswer(h)
  \/ \E h \in running : AuthRegister(h)
  \/ \E h \in running : ListenInsert(h)
  \/ \E h \in running : ListenOffline(h)
  \/ \E h \in running : DisconnectRemove(h)
  \/ \E h \in running : UpdateRead(h)
  \/ \E h \in running : UpdateSend(h)

RaceSpec == RaceInit /\ [][RaceNext]_vars

\* The events of the SDListen enqueued last on a queue, {} if there is none.
RECURSIVE LastListen(_)
LastListen(q) ==
  IF q = <<>> THEN {}
  ELSE IF q[Len(q)].id = "SDListen" THEN q[Len(q)].events
  ELSE LastListen(SubSeq(q, 1, Len(q) - 1))

\* C28: whenever no handler is in progress, for every daemon of DaemonIdIndex
\* that has subscribers the SDListen enqueued last on its connection lists
\* exactly the keys of its entry of DaemonListen.
C28_ListenUpToDate ==
  (\A h \in running : h.pc = "done")
    => \A d \in DOMAIN daemon_id_map :
         SubscribedEvents(daemon_listen_map, d) # {}
           => LastListen(daemon_channel_map[daemon_id_map[d]].q) = DOMAIN daemon_listen_map[d]

\* The connection of daemon d can be sent a packet: the id map resolves d to a
\* record with a handshake and an open channel.
Reachable(dcm, dim, d) ==
  /\ d \in DOMAIN dim
  /\ dim[d] \in DOMAIN dcm
  /\ dcm[dim[d]].handshake.some
  /\ CanSend(dcm[dim[d]])

\* C31: the step that handles a WSListen enqueues, for every daemon the request
\* names that DaemonIdIndex resolves to a connection that can be sent to, one
\* SDListen on that connection whose events are the keys of DaemonListen[d]
\* after the insertions, and enqueues no SDListen on any other connection.
C31_ListenUpdatesOnline ==
  [][\A t \in tasks \ tasks' :
       t.packet.id = "WSListen"
       => LET named == {p[2] : p \in RequestPairs(t.packet.events)}
          IN /\ \A d \in named :
                  Reachable(daemon_channel_map, daemon_id_map, d)
                    => Enqueued(daemon_channel_map', daemon_id_map[d]) =
                         <<SDListenPacket(DOMAIN daemon_listen_map'[d])>>
             /\ \A a \in DOMAIN daemon_channel_map' :
                  (~\E d \in named : d \in DOMAIN daemon_id_map /\ daemon_id_map[d] = a)
                    => Enqueued(daemon_channel_map', a) = <<>>]_vars

\* C32: the step that handles a WSListen of web peer w leaves w in
\* DaemonListen[d][e] and d in WebListen[w][e] for every (e, d) the request
\* names, leaves WebListen[w][e] the union of what it held and the daemons
\* named under e, and removes no subscription of any peer.
C32_ListenInserts ==
  [][\A t \in tasks \ tasks' :
       t.packet.id = "WSListen"
       => LET w == t.addr
              named == RequestPairs(t.packet.events)
              old == IF w \in DOMAIN web_listen_map THEN ListenPairs(web_listen_map[w]) ELSE {}
          IN /\ w \in DOMAIN web_listen_map'
             /\ \A p \in named :
                  /\ p[2] \in DOMAIN daemon_listen_map'
                  /\ p[1] \in DOMAIN daemon_listen_map'[p[2]]
                  /\ w \in daemon_listen_map'[p[2]][p[1]]
                  /\ p[1] \in DOMAIN web_listen_map'[w]
                  /\ p[2] \in web_listen_map'[w][p[1]]
             /\ ListenPairs(web_listen_map'[w]) = old \cup named
             /\ \A d \in Uuids, e \in EventType :
                  Subscribers(daemon_listen_map, d, e) \subseteq Subscribers(daemon_listen_map', d, e)]_vars

\* C32 happens: a web peer has had two requests handled and holds what both named.
C32_Witness ==
  /\ used.listens = 2
  /\ tasks = {}
  /\ \E w \in DOMAIN web_listen_map :
       /\ DOMAIN web_listen_map[w] = EventType
       /\ \A e \in EventType :
            \A d \in web_listen_map[w][e] : w \in Subscribers(daemon_listen_map, d, e)

\* C33: no step enqueues the synthetic NodeStatus{online:false} of a daemon on
\* the queue of a web peer while DaemonIdIndex holds that daemon (no daemon
\* connection disconnects in these runs).
C33_NoStaleOffline ==
  [][\A d \in DOMAIN daemon_id_map :
       \A w \in DOMAIN web_channel_map \cap DOMAIN web_channel_map' :
         \A i \in (Len(web_channel_map[w].q) + 1)..Len(web_channel_map'[w].q) :
           web_channel_map'[w].q[i] # SWEventPacket(d, OfflineEvent)]_vars

\* The packet p is on the queue q.
Holds(q, p) == \E i \in 1..Len(q) : q[i] = p

\* C34: when a connection has had its HandshakeResponse accepted and, as the
\* first frame of the run that is outside the handshake, sends a
\* HandshakeResponse with the same challenge again, the step that handles it
\* enqueues no AuthResponse{success:true} and no SDListen on the connection.
C34_ChallengeOnce ==
  [][\A t \in tasks \ tasks' :
       /\ ( /\ t.packet.id = "DSHandshakeResponse"
            /\ used.strays = 1
            /\ t.addr \in daemon_loops /\ daemon_passed[t.addr] # NoId
            /\ t.packet.challenge = daemon_channel_map[t.addr].handshake.challenge )
          => /\ ~Holds(Enqueued(daemon_channel_map', t.addr), AuthResponse)
             /\ \A i \in 1..Len(Enqueued(daemon_channel_map', t.addr)) :
                  Enqueued(daemon_channel_map', t.addr)[i].id # "SDListen"
       /\ ( /\ t.packet.id = "WSHandshakeResponse"
            /\ used.strays = 1
            /\ t.addr \in web_loops /\ t.addr \in web_passed
            /\ t.packet.challenge = web_channel_map[t.addr].handshake.challenge )
          => ~Holds(Enqueued(web_channel_map', t.addr), AuthResponse)]_vars

\* ------------------------------------------- the guards of the DashMaps
\* Every map of State is a DashMap: a get holds the read lock of the shard of
\* its key for as long as the Ref lives, a get_mut, insert or remove holds the
\* write lock.  A handler is followed here as the sequence of guards its path
\* takes and drops; a `?` under a guard may leave the handler and drops what it
\* holds.  A shard lock admits any number of readers or one writer.
MaxGuarded == 3
MaxShards == 2

Guard(mode, map, key) == [mode |-> mode, map |-> map, key |-> key]

NoGuard == Guard("none", "none", "none")

Acq(mode, map, key) == [op |-> "acq", g |-> Guard(mode, map, key)]

Rel(mode, map, key) == [op |-> "rel", g |-> Guard(mode, map, key)]

Try == [op |-> "try", g |-> NoGuard]

\* for ... in ...: the guards of the body, once for each element.
RECURSIVE ForEach(_, _, _)
ForEach(keys, Body(_), i) ==
  IF i > Len(keys) THEN <<>> ELSE Body(keys[i]) \o ForEach(keys, Body, i + 1)

\* send_event_from_server: the Ref of the daemon's listen map is held over the
\* whole loop, the Ref of a subscriber's record over one iteration.
send_event_from_server_guards(uuid, clients) ==
  LET body(peer) == <<Acq("R", "web_channel_map", peer), Try,
                      Rel("R", "web_channel_map", peer)>>
  IN <<Acq("R", "daemon_listen_map", uuid), Try>> \o ForEach(clients, body, 1)
       \o <<Rel("R", "daemon_listen_map", uuid)>>

send_event_from_daemon_guards(addr, uuid, clients) ==
  <<Acq("R", "daemon_channel_map", addr), Try, Rel("R", "daemon_channel_map", addr)>>
    \o send_event_from_server_guards(uuid, clients)

send_daemon_handshake_request_guards(addr) ==
  <<Acq("W", "daemon_channel_map", addr), Try, Rel("W", "daemon_channel_map", addr)>>

send_web_handshake_request_guards(addr) ==
  <<Acq("W", "web_channel_map", addr), Try, Rel("W", "web_channel_map", addr)>>

authenticate_web_guards(addr) ==
  <<Acq("W", "web_channel_map", addr), Try, Rel("W", "web_channel_map", addr)>>

\* authenticate_daemon: `client` lives to the end of the function, the Ref of
\* the listen map to the end of the `if let`.
authenticate_daemon_guards(addr, uuid) ==
  <<Acq("R", "daemon_channel_map", addr), Try,
    Acq("R", "daemon_listen_map", uuid), Try, Rel("R", "daemon_listen_map", uuid),
    Acq("W", "daemon_id_map", uuid), Rel("W", "daemon_id_map", uuid),
    Rel("R", "daemon_channel_map", addr)>>

\* An update that takes the record of the daemon with get_mut.
update_listens_for_daemon_guards_mut(addr, uuid) ==
  <<Acq("W", "daemon_channel_map", addr), Try,
    Acq("R", "daemon_listen_map", uuid), Try, Rel("R", "daemon_listen_map", uuid),
    Try, Rel("W", "daemon_channel_map", addr)>>

\* update_listens_for_daemon: `socket` lives to the end of the function, the
\* Ref of the listen map to the end of its statement.
update_listens_for_daemon_guards(addr, uuid) ==
  <<Acq("R", "daemon_channel_map", addr), Try,
    Acq("R", "daemon_listen_map", uuid), Try, Rel("R", "daemon_listen_map", uuid),
    Try, Rel("R", "daemon_channel_map", addr)>>

\* The address DaemonIdIndex holds for a daemon in these runs.
AddrOf(uuid) == IF uuid = "d1" THEN "a1" ELSE "a2"

\* `for daemon in update_daemons { if let Some(daemon_addr) = daemon_id_map.get(..) {..} }`:
\* the Ref of the id map is held over the update of a daemon it holds.
update_daemons_guards(daemons, online) ==
  LET body(daemon) ==
        IF daemon \in online
        THEN <<Acq("R", "daemon_id_map", daemon)>>
               \o update_listens_for_daemon_guards(AddrOf(daemon), daemon)
               \o <<Rel("R", "daemon_id_map", daemon)>>
        ELSE <<Acq("R", "daemon_id_map", daemon), Rel("R", "daemon_id_map", daemon)>>
  IN ForEach(daemons, body, 1)

\* send_listen for one NodeStatus entry: offline are the daemons the insertions
\* did not find in the id map, online the ones the last loop finds there.
send_listen_guards(addr, daemons, offline, online, clients) ==
  LET insert(daemon) ==
        <<Acq("W", "daemon_listen_map", daemon), Rel("W", "daemon_listen_map", daemon),
          Acq("R", "daemon_id_map", daemon), Rel("R", "daemon_id_map", daemon)>>
      send(daemon) ==
        IF daemon \in offline THEN send_event_from_server_guards(daemon, clients) ELSE <<>>
  IN ForEach(daemons, insert, 1)
       \o <<Acq("W", "web_listen_map", addr), Rel("W", "web_listen_map", addr)>>
       \o ForEach(daemons, send, 1)
       \o update_daemons_guards(daemons, online)

\* remove_web: the Ref of the peer's listen map is held over the nested loops.
remove_web_guards(addr, daemons, online) ==
  LET body(daemon) ==
        <<Acq("W", "daemon_listen_map", daemon), Try, Rel("W", "daemon_listen_map", daemon)>>
  IN <<Acq("W", "web_channel_map", addr), Rel("W", "web_channel_map", addr),
       Acq("R", "web_listen_map", addr)>>
       \o ForEach(daemons, body, 1)
       \o <<Rel("R", "web_listen_map", addr)>>
       \o update_daemons_guards(daemons, online)

remove_daemon_guards(addr, uuid, clients) ==
  <<Acq("R", "daemon_channel_map", addr), Try, Rel("R", "daemon_channel_map", addr),
    Acq("W", "daemon_channel_map", addr), Rel("W", "daemon_channel_map", addr),
    Acq("W", "daemon_id_map", uuid), Rel("W", "daemon_id_map", uuid)>>
    \o send_event_from_server_guards(uuid, clients)

Guarded(name, ops) == [name |-> name, ops |-> ops, pc |-> 1, holds |-> {}]

\* The handlers of these runs: daemon d1 at a1, web peers w1 and w2.
GuardedHandlers ==
  { Guarded("send_daemon_handshake_request", send_daemon_handshake_request_guards("a1")),
    Guarded("authenticate_daemon", authenticate_daemon_guards("a1", "d1")),
    Guarded("send_event_from_daemon", send_event_from_daemon_guards("a1", "d1", <<"w1", "w2">>)),
    Guarded("remove_daemon", remove_daemon_guards("a1", "d1", <<"w2", "w1">>)),
    Guarded("send_web_handshake_request", send_web_handshake_request_guards("w1")),
    Guarded("authenticate_web", authenticate_web_guards("w1")),
    Guarded("send_listen", send_listen_guards("w1", <<"d1">>, {"d1"}, {"d1"}, <<"w1", "w2">>)),
    Guarded("remove_web", remove_web_guards("w2", <<"d1">>, {"d1"})) }

\* The shard of a key: every key of a map in one shard, or each in its own.
Shard(key) ==
  IF scenario.shards = 1 THEN 1
  ELSE IF key \in {"a1", "d1", "w1"} THEN 1 ELSE 2

SameLock(g, k) == g.map = k.map /\ Shard(g.key) = Shard(k.key)

\* RwLock: a read lock is granted unless a writer holds the shard, a write lock
\* only when nothing holds it; neither is reentrant under a write guard.
Granted(g) ==
  \A h \in running : \A k \in h.holds :
    SameLock(g, k) => (g.mode = "R" /\ k.mode = "R")

Finished(h) == h.pc > Len(h.ops)

GuardInit ==
  /\ daemon_channel_map = EmptyMap
  /\ web_channel_map = EmptyMap
  /\ daemon_listen_map = EmptyMap
  /\ web_listen_map = EmptyMap
  /\ daemon_id_map = EmptyMap
  /\ daemon_loops = {}
  /\ web_loops = {}
  /\ tasks = {}
  /\ \E n \in 1..MaxShards :
       scenario = [daemons |-> 1, webs |-> 2, listens |-> 1, events |-> 1, strays |-> 0,
                   pending |-> MaxGuarded, shards |-> n]
  /\ used = [daemons |-> 0, webs |-> 0, listens |-> 0, events |-> 0, strays |-> 0]
  /\ daemon_passed = [a \in DaemonAddrs |-> NoId]
  /\ web_passed = {}
  /\ running = {}
  /\ KeysIdle
  /\ NodeIdle

\* tokio::spawn(handle_packet) or the disconnect hook: a handler starts.
GuardBegin(h) ==
  /\ \A g \in running : g.name # h.name
  /\ Cardinality(running) < scenario.pending
  /\ running' = running \cup {h}
  /\ UNCHANGED <<daemon_channel_map, web_channel_map, index_vars, daemon_loops, web_loops,
                 tasks, scenario, used, daemon_passed, web_passed, node_vars, key_vars>>

\* get, get_mut, insert, remove: the handler waits until the lock is granted.
GuardAcquire(h) ==
  /\ h \in running /\ ~Finished(h)
  /\ h.ops[h.pc].op = "acq"
  /\ Granted(h.ops[h.pc].g)
  /\ running' = (running \ {h}) \cup
       {[h EXCEPT !.pc = @ + 1, !.holds = @ \cup {h.ops[h.pc].g}]}
  /\ UNCHANGED <<daemon_channel_map, web_channel_map, index_vars, daemon_loops, web_loops,
                 tasks, scenario, used, daemon_passed, web_passed, node_vars, key_vars>>

\* A Ref or RefMut is dropped.
GuardRelease(h) ==
  /\ h \in running /\ ~Finished(h)
  /\ h.ops[h.pc].op = "rel"
  /\ running' = (running \ {h}) \cup
       {[h EXCEPT !.pc = @ + 1, !.holds = @ \ {h.ops[h.pc].g}]}
  /\ UNCHANGED <<daemon_channel_map, web_channel_map, index_vars, daemon_loops, web_loops,
                 tasks, scenario, used, daemon_passed, web_passed, node_vars, key_vars>>

\* `?`: the handler goes on, or returns Err and drops every guard it holds.
GuardTry(h) ==
  /\ h \in running /\ ~Finished(h)
  /\ h.ops[h.pc].op = "try"
  /\ \/ running' = (running \ {h}) \cup {[h EXCEPT !.pc = @ + 1]}
     \/ running' = (running \ {h}) \cup {[h EXCEPT !.pc = Len(h.ops) + 1, !.holds = {}]}
  /\ UNCHANGED <<daemon_channel_map, web_channel_map, index_vars, daemon_loops, web_loops,
                 tasks, scenario, used, daemon_passed, web_passed, node_vars, key_vars>>

\* A handler that is not waiting for a lock takes its next step.
GuardProgress == \E h \in running : GuardAcquire(h) \/ GuardRelease(h) \/ GuardTry(h)

GuardNext ==
  \/ \E h \in GuardedHandlers : GuardBegin(h)
  \/ \E h \in running : GuardAcquire(h)
  \/ \E h \in running : GuardRelease(h)
  \/ \E h \in running : GuardTry(h)

\* The runtime polls every spawned handler until it returns.
GuardSpec ==
  /\ GuardInit /\ [][GuardNext]_vars
  /\ WF_vars(GuardProgress)

\* C35: every handler that has started finishes, whatever handlers run beside
\* it and however the guards they take interleave: from some point on no
\* handler is left that has started and not returned.
C35_HandlersFinish == <>[](\A h \in running : Finished(h))

\* C35 happens: authenticate_daemon holds the record of the daemon and waits
\* for the write lock of the id map, which an update of the same daemon holds
\* for reading together with the record.
C35_Witness ==
  \E a, u \in running :
    /\ a.name = "authenticate_daemon" /\ ~Finished(a)
    /\ a.ops[a.pc] = Acq("W", "daemon_id_map", "d1")
    /\ Guard("R", "daemon_id_map", "d1") \in u.holds
    /\ Guard("R", "daemon_channel_map", "a1") \in u.holds

\* The handler of the SDSync that arrived last.
LastSync == CHOOSE t \in syncs : \A u \in syncs : u.k <= t.k

\* The stats tasks of server id that go on: in their loop under a token that
\* is not cancelled.
Streaming(id) == {s \in stats : s.id = id /\ s.pc = "loop" /\ ~is_cancelled(s.tok)}

\* C36: when every handler of an SDSync has ended, every stats task has its
\* token and every task whose token is cancelled has exited, one stats task
\* and no more goes on for each server of the snapshot that arrived last
\* (the token of the services is not cancelled).
C36_OneStatsTaskPerServer ==
  ( /\ syncs # {} /\ \A t \in syncs : t.pc \in {"done", "failed"}
    /\ \A s \in stats : s.pc # "start" /\ (is_cancelled(s.tok) => s.pc = "exited")
    /\ ~token )
  => \A i \in 1..Len(LastSync.packet.servers) :
       Cardinality(Streaming(LastSync.packet.servers[i].id)) = 1

\* ------------------------------------------------ the daemon's LISTENS and node status
MaxListenFrames == 2

MaxOutbound == 2

\* The events an SDListen of these runs asks for.
ListenSets == {{}, {"NodeStatus"}, {"ServerStatus"}}

\* connect_to_server, a frame with an SDListen: its handler is spawned.  `k` is
\* the place of the frame on the wire, `connection` the attempt that read it.
ListenReceived(events) ==
  /\ Cardinality(listen_tasks) < MaxListenFrames
  /\ \E c \in client.connections :
       listen_tasks' = listen_tasks \cup
         {[k |-> Cardinality(listen_tasks) + 1, connection |-> c, events |-> events,
           pc |-> "spawned"]}
  /\ UNCHANGED <<hub_vars, key_vars, LISTENS, outbound, docker, server, result, token, child_tokens,
                 syncs, stats, sender, client, node_status>>

\* packets::listen::handle: LISTENS is replaced by the events of the packet.
ListenHandle(t) ==
  /\ t \in listen_tasks /\ t.pc = "spawned"
  /\ LISTENS' = t.events
  /\ listen_tasks' = (listen_tasks \ {t}) \cup {[t EXCEPT !.pc = "done"]}
  /\ UNCHANGED <<hub_vars, key_vars, outbound, docker, server, result, token, child_tokens, syncs,
                 stats, sender, client, node_status>>

\* unbounded_send on the channel SENDER holds: the receiver lives as long as the
\* connection it was handed to, and the channel must not have been closed.
Sendable == sender.current \in client.connections /\ sender.current \notin sender.closed

DSNodeStatus(connection) ==
  [id |-> "DSEvent", data |-> EventData("NodeStatus", 1), connection |-> connection]

\* A send_loop that does not look at LISTENS.
send_loop_always(listens) ==
  IF sender.current # 0 /\ Sendable
  THEN Append(outbound, DSNodeStatus(sender.current))
  ELSE outbound

\* node_status::send_loop, the body of the loop after a tick: nothing is sent
\* unless LISTENS holds NodeStatus and SENDER holds a channel.
send_loop(listens) ==
  IF "NodeStatus" \notin listens THEN outbound
  ELSE IF sender.current = 0 THEN outbound
  ELSE IF Sendable THEN Append(outbound, DSNodeStatus(sender.current))
  ELSE outbound

\* node_status::send_loop, one tick of the interval, taken as one step.
NodeStatusTick ==
  /\ node_status = "running"
  /\ Len(outbound) < MaxOutbound
  /\ outbound' = send_loop(LISTENS)
  /\ UNCHANGED <<hub_vars, key_vars, LISTENS, listen_tasks, docker, server, result, token,
                 child_tokens, syncs, stats, sender, client, node_status>>

ListenInit == HubIdle /\ NodeIdle

ListenNext ==
  \/ ServicesStart
  \/ Cancel
  \/ ClientConnect
  \/ \E c \in client.connections : ConnectionEnds(c)
  \/ ClientDisconnected
  \/ ClientTick
  \/ ClientCancelled
  \/ NodeStatusCancelled
  \/ \E events \in ListenSets : ListenReceived(events)
  \/ \E t \in listen_tasks : ListenHandle(t)
  \/ NodeStatusTick

ListenSpec == ListenInit /\ [][ListenNext]_vars

\* The SDListen handlers of the connection of the latest attempt.
OfAttempt == {t \in listen_tasks : t.connection = client.attempts}

\* C37: when every SDListen read so far has been handled and the connection of
\* the latest attempt has read some, LISTENS holds the events of the one it
\* read last; and the handler of an SDListen read by an earlier connection
\* leaves LISTENS as the new attempt has set it.
C37_ListensFollowWire ==
  /\ []( ( /\ OfAttempt # {}
           /\ \A t \in listen_tasks : t.pc = "done" )
         => LISTENS = (CHOOSE t \in OfAttempt : \A u \in OfAttempt : u.k <= t.k).events )
  /\ [][\A t \in listen_tasks \ listen_tasks' :
          t.connection # client.attempts => LISTENS' = LISTENS]_vars

\* C39: a tick of the node-status loop enqueues a NodeStatus event, on the
\* channel SENDER holds, only when LISTENS holds NodeStatus and SENDER holds a
\* channel, and enqueues nothing otherwise; LISTENS is what the SDListen
\* handled last asked for, and empty from every connection attempt on.
C39_NodeStatusWhenListened ==
  [][/\ outbound' # outbound
          => /\ "NodeStatus" \in LISTENS
             /\ sender.current # 0
             /\ outbound' = Append(outbound, DSNodeStatus(sender.current))
     /\ \A t \in listen_tasks \ listen_tasks' : LISTENS' = t.events
     /\ client'.attempts # client.attempts => LISTENS' = {}]_vars

\* C39 happens: an event was enqueued on the first connection, and the second
\* attempt has emptied LISTENS.
C39_Witness ==
  /\ outbound # <<>> /\ outbound[1].connection = 1
  /\ client.attempts = 2
  /\ LISTENS = {}
  /\ \E t \in listen_tasks : t.pc = "done" /\ t.events = {"NodeStatus"}

\* C38: the step that handles a packet of the other direction, or a
\* HandshakeResponse on a connection that has no handshake pending, closes the
\* channel of the connection the packet came in on.
C38_RejectionCloses ==
  [][\A t \in tasks \ tasks' :
       /\ ( /\ t.side = "daemon"
            /\ t.addr \in DOMAIN daemon_channel_map
            /\ \/ t.packet.id = SDPacket.id
               \/ /\ t.packet.id = "DSHandshakeResponse"
                  /\ ~daemon_channel_map[t.addr].handshake.some )
          => daemon_channel_map'[t.addr].closed
       /\ ( /\ t.side = "web"
            /\ t.addr \in DOMAIN web_channel_map
            /\ \/ t.packet.id = SDPacket.id
               \/ /\ t.packet.id = "WSHandshakeResponse"
                  /\ ~web_channel_map[t.addr].handshake.some )
          => web_channel_map'[t.addr].closed]_vars

\* ------------------------------------------------ query_user_public_key
MaxQueries == 3

\* The cache a lookup of this listener uses.
KeyCache(side) == IF side = "daemon" THEN daemon_key_cache ELSE web_key_cache

Query(n, side, id) ==
  [n |-> n, side |-> side, id |-> id, pc |-> "check", res |-> NoId, read |-> FALSE,
   out |-> NoId]

\* handle_auth calls query_user_public_key for the identity of an Auth packet.
KeyQuery(side, id) ==
  /\ Cardinality(queries) < MaxQueries
  /\ queries' = queries \cup {Query(Cardinality(queries) + 1, side, id)}
  /\ UNCHANGED <<hub_vars, node_vars, key_store, daemon_key_cache, web_key_cache>>

\* The first block of the function: a key that is in the cache is returned.
KeyCheck(q) ==
  /\ q \in queries /\ q.pc = "check"
  /\ queries' = (queries \ {q}) \cup
       { IF q.id \in DOMAIN KeyCache(q.side)
         THEN [q EXCEPT !.pc = "done", !.out = KeyCache(q.side)[q.id]]
         ELSE [q EXCEPT !.pc = "load"] }
  /\ UNCHANGED <<hub_vars, node_vars, key_store, daemon_key_cache, web_key_cache>>

\* fetch_one reads the row of the identity.
KeyLoad(q) ==
  /\ q \in queries /\ q.pc = "load"
  /\ queries' = (queries \ {q}) \cup
       {[q EXCEPT !.pc = "insert", !.res = key_store[<<q.side, q.id>>], !.read = TRUE]}
  /\ UNCHANGED <<hub_vars, node_vars, key_store, daemon_key_cache, web_key_cache>>

\* cache.insert puts the key that was read under the identity, whatever the
\* cache holds.  web.rs holds the mutex over insert and get; the daemon side
\* reads the DashMap again in a step of its own.
KeyInsert(q) ==
  /\ q \in queries /\ q.pc = "insert"
  /\ IF q.side = "daemon"
     THEN /\ daemon_key_cache' = Put(daemon_key_cache, q.id, q.res)
          /\ queries' = (queries \ {q}) \cup {[q EXCEPT !.pc = "get"]}
          /\ UNCHANGED web_key_cache
     ELSE /\ web_key_cache' = Put(web_key_cache, q.id, q.res)
          /\ queries' = (queries \ {q}) \cup {[q EXCEPT !.pc = "done", !.out = q.res]}
          /\ UNCHANGED daemon_key_cache
  /\ UNCHANGED <<hub_vars, node_vars, key_store>>

\* cache.get(daemon_uuid) after the insert.
KeyGet(q) ==
  /\ q \in queries /\ q.pc = "get" /\ q.side = "daemon"
  /\ queries' = (queries \ {q}) \cup
       {[q EXCEPT !.pc = "done", !.out = daemon_key_cache[q.id]]}
  /\ UNCHANGED <<hub_vars, node_vars, key_store, daemon_key_cache, web_key_cache>>

\* The owner of an identity replaces its key in the table.
KeyRotate(i) ==
  /\ i \in KeyIds
  /\ \E k \in Keys \ {key_store[i]} : key_store' = [key_store EXCEPT ![i] = k]
  /\ UNCHANGED <<hub_vars, node_vars, daemon_key_cache, web_key_cache, queries>>

KeyInit == HubIdle /\ NodeIdle

KeyNext ==
  \/ \E i \in KeyIds : KeyQuery(i[1], i[2])
  \/ \E q \in queries : KeyCheck(q)
  \/ \E q \in queries : KeyLoad(q)
  \/ \E q \in queries : KeyInsert(q)
  \/ \E q \in queries : KeyGet(q)
  \/ \E i \in KeyIds : KeyRotate(i)

KeySpec == KeyInit /\ [][KeyNext]_vars

\* C40: the lookup of an identity whose key is cached returns the cached key
\* without reading the table, and no step changes or drops the key cached for
\* an identity.
C40_KeyCacheStable ==
  [][/\ \A q \in queries : \A r \in queries' \ queries :
          (r.n = q.n /\ q.pc = "check" /\ q.id \in DOMAIN KeyCache(q.side))
            => r.pc = "done" /\ ~r.read /\ r.out = KeyCache(q.side)[q.id]
     /\ \A id \in DOMAIN daemon_key_cache :
          id \in DOMAIN daemon_key_cache' /\ daemon_key_cache'[id] = daemon_key_cache[id]
     /\ \A id \in DOMAIN web_key_cache :
          id \in DOMAIN web_key_cache' /\ web_key_cache'[id] = web_key_cache[id]]_vars

====
